---- MODULE Spec2Model ----
(***************************************************************************)
(* Model of the build orchestration of relenv (src/relenv/build/common.py):*)
(* Builder.build, Builder.run, Builder.download_files, Builder.__call__    *)
(* and Download.__call__.                                                  *)
(*                                                                         *)
(* Steps are named by the integers 1..NumSteps.  A registry (recipies) is  *)
(* any acyclic graph in which a step waits on lower numbered steps only;   *)
(* the requested steps are any subset, listed in ascending or descending   *)
(* order, so that dependents are spawned and polled both after and before  *)
(* the steps they wait on.                                                 *)
(***************************************************************************)
EXTENDS Integers, Sequences, FiniteSets, TLC

\* Number of steps registered in Builder.recipies.
NumSteps == 3

Names == 1..NumSteps

VARIABLES
    recipies,     \* Builder.recipies: name -> [wait_on, build_func, download]
    registered,   \* the recipies as they were registered with Builder.add
    steps,        \* the steps argument of Builder.build: a list of names
    pc,           \* position of the orchestrator (the process in Builder.build)
    tospawn,      \* names the first loop of Builder.build has still to visit
    events,       \* events[name]: the multiprocessing.Event of the step is set
    processes,    \* keys of the processes dict of Builder.build
    fails,        \* the fails list of Builder.build
    snapshot,     \* what is left of list(processes.values()) in the for loop
    proc,         \* the terminated process being handled (0: none)
    is_failure,   \* the local is_failure of Builder.build
    inner,        \* what is left of the loop "for name in waits"
    wstate,       \* per step worker: "unborn", "waiting", "running", "exited"
    exitcode,     \* Process.exitcode of an exited worker
    ran,          \* number of times the build action of the step was invoked
    terminated,   \* the orchestrator called terminate() on the worker
    gatesets,     \* number of times the orchestrator set the event after spawn
    result,       \* outcome of the run: "none", "returned", "exit1"
    force_download, \* the force_download argument of Builder.__call__
    dtospawn,     \* names the first loop of download_files has still to visit
    dprocesses,   \* keys of the processes dict of download_files
    dfails,       \* the fails list of download_files
    dsnapshot,    \* what is left of list(processes.values()) in download_files
    dstate,       \* per step download worker: "unborn", "running", "exited"
    dexit,        \* Process.exitcode of an exited download worker
    rejected,     \* the worker fetched a file that a configured check rejects
    failures,     \* the list check_prereqs returned in Builder.__call__
    removed,      \* what the run has removed: "prefix", "sources", "archive"
    named,        \* the steps the failure summary of Builder.build has named
    cleanup,      \* the cleanup argument of Builder.build: <<>> until it is read
    download,     \* one call of a Download object: <<>> or <<its inputs>>
    returned,     \* what that call produced: <<>> or <<its outcome>>
    run,          \* one call of Builder.run: <<>> or <<what it is called with>>
    rpc,          \* the statement of Builder.run that is next
    cwd,          \* the working directory of the worker process
    logfp,        \* the log file of the step: "none", "open", "closed"
    handler,      \* the logging handler of the step is attached
    logtext,      \* what has been written to logfp
    buildenv,     \* the names of the environment map built for the action
    fault,        \* the statement that raised, or "none"
    status,       \* the exit status of the worker: <<>> or <<code>>
    toarchive,    \* the files under the directory handed to create_archive
    globs,        \* the allow-list handed to create_archive
    pending,      \* the files os.walk has not yet yielded
    tarfp,        \* the members of the archive being written
    vcheck,       \* one call of check_files: <<>> or <<its inputs>>
    vout,         \* what that call did: <<>> or <<its outcome>>
    tailin,       \* the log of a failed step in the summary: <<>> or <<its length>>
    tailout,      \* what the summary printed of it: <<>> or <<from, to>>
    binfiles,     \* the files of the bin directory of the prefix: file -> text
    original,     \* those files as Python laid them down
    shebang,      \* index in shebangs of the shebang finalize is replacing
    walk,         \* the files os.walk has still to yield for that shebang
    lists,        \* the list objects of the heap: address -> list
    dlobjs,       \* the Download objects of the heap: address -> <<>> or <<fields>>
    origrec,      \* recipies of a Builder: name -> [wait_on, download] addresses
    copyrec,      \* recipies of the Builder made by copy: <<>> or <<the same>>
    before,       \* what origrec held when copy was called
    platform,     \* sys.platform of the process that holds a Dirs object
    dirsobj,      \* a Dirs object: <<>> or <<its attributes>>
    pickled,      \* what __getstate__ returned for it: <<>> or <<the dict>>
    restored,     \* the object __setstate__ was called on: <<>> or <<attributes>>
    fs,           \* the paths that exist under the root of the working directories
    fsbefore,     \* fs when Builder.clean was first called
    fsonce,       \* fs when the first call returned: <<>> or <<the paths>>
    cleanpc,      \* the statement of Builder.clean that is next
    cleans,       \* the number of calls of Builder.clean that have returned
    loading,      \* Wrapper.loading of every wrapper of the importer
    stack,        \* the imports in progress, innermost last
    sysmodules,   \* the names in sys.modules
    reentered     \* a wrapper's own import was handed to the importer

\* The state of Builder.download_files and of its workers.
dlvars == <<force_download, dtospawn, dprocesses, dfails, dsnapshot, dstate, dexit,
        rejected>>

\* The variables of the specifications of single operations (below); the
\* orchestration leaves them alone.
runvars == <<run, rpc, cwd, logfp, handler, logtext, buildenv, fault, status>>

archvars == <<toarchive, globs, pending, tarfp>>

dlcall == <<download, returned>>

versvars == <<vcheck, vout>>

\* The variables of the pure operations.
tailvars == <<tailin, tailout>>

shebvars == <<binfiles, original, shebang, walk>>

copyvars == <<lists, dlobjs, origrec, copyrec, before>>

\* The variables of the specifications added last.
dirsvars == <<platform, dirsobj, pickled, restored>>

cleanvars == <<fs, fsbefore, fsonce, cleanpc, cleans>>

importvars == <<loading, stack, sysmodules, reentered>>

late == <<copyvars, dirsvars, cleanvars, importvars>>

pure == <<versvars, tailvars, shebvars, late>>

aux == <<dlcall, runvars, archvars, pure>>

\* The variables of the orchestration; a single operation leaves them alone.
orch == <<recipies, registered, steps, pc, tospawn, events, processes, fails,
          snapshot, proc, is_failure, inner, wstate, exitcode, ran,
          terminated, gatesets, result, dlvars, failures, removed, named,
          cleanup>>

vars == <<recipies, registered, steps, pc, tospawn, events, processes, fails,
          snapshot, proc, is_failure, inner, wstate, exitcode, ran,
          terminated, gatesets, result, dlvars, failures, removed, named,
          cleanup, aux>>

----------------------------------------------------------------------------
\* Python list helpers

\* x in lst
In(x, lst) == \E i \in 1..Len(lst) : lst[i] = x

\* the elements of a list
Elems(lst) == {lst[i] : i \in 1..Len(lst)}

RECURSIVE ListRemove(_, _)
\* list.remove(x): drops the first occurrence of x
ListRemove(lst, x) ==
    IF lst = <<>> THEN <<>>
    ELSE IF Head(lst) = x THEN Tail(lst)
    ELSE <<Head(lst)>> \o ListRemove(Tail(lst), x)

RECURSIVE Ascending(_)
\* the list of a set of names, smallest first
Ascending(S) ==
    IF S = {} THEN <<>>
    ELSE LET m == CHOOSE x \in S : \A y \in S : x <= y
         IN  <<m>> \o Ascending(S \ {m})

RECURSIVE Reverse(_)
Reverse(lst) ==
    IF lst = <<>> THEN <<>> ELSE Reverse(Tail(lst)) \o <<Head(lst)>>

\* lst restricted to the elements satisfying membership in S, order kept
Restrict(lst, S) == SelectSeq(lst, LAMBDA x : x \in S)

----------------------------------------------------------------------------
\* Builder.add: one recipe of the registry.  The build action is opaque and is
\* identified by the step it was registered for.
Recipe(name, deps, dl) ==
    [wait_on |-> Ascending(deps), build_func |-> name, download |-> dl]

\* The registries the model is checked over: every step waits on any set of
\* lower numbered steps.
Registries ==
    {[n \in Names |-> Recipe(n, g[n], FALSE)] :
        g \in {f \in [Names -> SUBSET Names] : \A n \in Names : \A d \in f[n] : d < n}}

\* The steps arguments the model is checked over.
StepLists ==
    {Ascending(S) : S \in SUBSET Names} \cup {Reverse(Ascending(S)) : S \in SUBSET Names}

\* waits[name] of Builder.build.  Line 1077 stores in waits the very list object
\* that the registry holds (dict(...) at line 1069 is a shallow copy and pop
\* returns the list itself), so every read and write of waits[name] is a read
\* and write of recipies[name]["wait_on"].
waits(name) == recipies[name].wait_on

\* Nothing has been spawned: the locals of Builder.build and of
\* Builder.download_files, and the workers.
Fresh ==
    /\ tospawn = steps
    /\ events = [n \in Names |-> FALSE]
    /\ processes = {}
    /\ fails = <<>>
    /\ snapshot = <<>>
    /\ proc = 0
    /\ is_failure = FALSE
    /\ inner = <<>>
    /\ wstate = [n \in Names |-> "unborn"]
    /\ exitcode = [n \in Names |-> 0]
    /\ ran = [n \in Names |-> 0]
    /\ terminated = [n \in Names |-> FALSE]
    /\ gatesets = [n \in Names |-> 0]
    /\ result = "none"
    /\ dtospawn = steps
    /\ dprocesses = {}
    /\ dfails = <<>>
    /\ dsnapshot = <<>>
    /\ dstate = [n \in Names |-> "unborn"]
    /\ dexit = [n \in Names |-> 0]
    /\ rejected = [n \in Names |-> FALSE]
    /\ failures = <<>>
    /\ removed = {}
    /\ named = {}
    /\ cleanup = <<>>

\* No single operation is under way.
NoDownload == download = <<>> /\ returned = <<>>

NoRun ==
    /\ run = <<>>
    /\ rpc = "idle"
    /\ cwd = "origin"
    /\ logfp = "none"
    /\ handler = FALSE
    /\ logtext = <<>>
    /\ buildenv = {}
    /\ fault = "none"
    /\ status = <<>>

NoArchive ==
    /\ toarchive = {}
    /\ globs = <<>>
    /\ pending = {}
    /\ tarfp = {}

NoVersions == vcheck = <<>> /\ vout = <<>>

NoTail == tailin = <<>> /\ tailout = <<>>

NoShebang == binfiles = <<>> /\ original = <<>> /\ shebang = 0 /\ walk = {}

NoCopy ==
    /\ lists = <<>>
    /\ dlobjs = <<>>
    /\ origrec = <<>>
    /\ copyrec = <<>>
    /\ before = <<>>

NoDirs == platform = "" /\ dirsobj = <<>> /\ pickled = <<>> /\ restored = <<>>

NoClean ==
    /\ fs = {}
    /\ fsbefore = {}
    /\ fsonce = <<>>
    /\ cleanpc = "idle"
    /\ cleans = 0

NoImport ==
    /\ loading = <<>>
    /\ stack = <<>>
    /\ sysmodules = {}
    /\ reentered = FALSE

NoLate == NoCopy /\ NoDirs /\ NoClean /\ NoImport

NoPure == NoVersions /\ NoTail /\ NoShebang /\ NoLate

Idle == NoDownload /\ NoRun /\ NoArchive /\ NoPure

\* Builder.build(steps) is called on a builder as constructed.
Init ==
    /\ recipies \in Registries
    /\ registered = recipies
    /\ steps \in StepLists
    /\ force_download = FALSE
    /\ pc = "spawn"
    /\ Fresh
    /\ Idle

----------------------------------------------------------------------------
\* A fault that drops the loop of lines 1073-1075.
KeepWaitOn(wait_on, requested) == wait_on

\* Lines 1072-1075: the names that are not requested are removed from wait_on.
FilterWaitOn(wait_on, requested) == Restrict(wait_on, Elems(requested))

\* A fault that drops the test of line 1078.
InitialGateAlways(wait_on) == TRUE

\* Line 1078: the event starts set when nothing is left to wait on.
InitialGate(wait_on) == wait_on = <<>>

Spawn ==
    /\ pc = "spawn"
    /\ tospawn # <<>>
    /\ LET name == Head(tospawn)
           wait_on == FilterWaitOn(recipies[name].wait_on, steps)
       IN  /\ recipies' = [recipies EXCEPT ![name].wait_on = wait_on]
           /\ events' = [events EXCEPT ![name] = InitialGate(wait_on)]
           /\ wstate' = [wstate EXCEPT ![name] = "waiting"]
           /\ processes' = processes \cup {name}
    /\ tospawn' = Tail(tospawn)
    /\ UNCHANGED <<aux, failures, removed, named, cleanup, dlvars, registered, steps, pc, fails, snapshot, proc, is_failure,
                   inner, exitcode, ran, terminated, gatesets, result>>

\* The processes dict in insertion order (the order of steps).
ProcessList(ps) == Restrict(steps, ps)

\* Lines 1089-1090: the first loop is over; "while processes" is evaluated and
\* list(processes.values()) taken, or the loop ends.
SpawnDone ==
    /\ pc = "spawn"
    /\ tospawn = <<>>
    /\ pc' = IF processes = {} THEN "summary" ELSE "poll"
    /\ snapshot' = ProcessList(processes)
    /\ UNCHANGED <<aux, failures, removed, named, cleanup, dlvars, recipies, registered, steps, tospawn, events, processes,
                   fails, proc, is_failure, inner, wstate, exitcode, ran,
                   terminated, gatesets, result>>

\* A fault that makes "while processes" a single pass over the workers.
AfterProcOnePass(rest, ps) ==
    IF rest # <<>> THEN [pc |-> "poll", snapshot |-> rest]
    ELSE [pc |-> "summary", snapshot |-> <<>>]

\* After one process of the snapshot has been dealt with: the next one, a new
\* pass of "while processes", or the end of the loop.
AfterProc(rest, ps) ==
    IF rest # <<>> THEN [pc |-> "poll", snapshot |-> rest]
    ELSE IF ps # {} THEN [pc |-> "poll", snapshot |-> ProcessList(ps)]
    ELSE [pc |-> "summary", snapshot |-> <<>>]

\* Lines 1091-1095: proc.join(0.3) returns and the worker is still alive.
PollAlive ==
    /\ pc = "poll"
    /\ snapshot # <<>>
    /\ wstate[Head(snapshot)] # "exited"
    /\ LET nxt == AfterProc(Tail(snapshot), processes)
       IN  /\ pc' = nxt.pc
           /\ snapshot' = nxt.snapshot
    /\ UNCHANGED <<aux, failures, removed, named, cleanup, dlvars, recipies, registered, steps, tospawn, events, processes,
                   fails, proc, is_failure, inner, wstate, exitcode, ran,
                   terminated, gatesets, result>>

\* A fault that takes only status 1 for a failure.
IsFailureOnlyOne(code) == code = 1

\* Line 1097: any exit code but 0 is a failure.
IsFailure(code) == code # 0

\* Lines 1096-1102: the worker has an exit code; it is popped and recorded.
PollExited ==
    /\ pc = "poll"
    /\ snapshot # <<>>
    /\ wstate[Head(snapshot)] = "exited"
    /\ LET p == Head(snapshot)
       IN  /\ processes' = processes \ {p}
           /\ fails' = IF IsFailure(exitcode[p]) THEN Append(fails, p) ELSE fails
           /\ is_failure' = IsFailure(exitcode[p])
           /\ proc' = p
    /\ snapshot' = Tail(snapshot)
    /\ inner' = steps
    /\ pc' = "waits"
    /\ UNCHANGED <<aux, failures, removed, named, cleanup, dlvars, recipies, registered, steps, tospawn, events, wstate,
                   exitcode, ran, terminated, gatesets>>
    /\ UNCHANGED result

\* A fault that drops the test of lines 1103-1105: no dependent is terminated.
TerminateNever(name, dep, failed, ps) == FALSE

\* A fault that drops the test of line 1103: a failure stops every worker.
TerminateAll(name, dep, failed, ps) == failed /\ name \in ps

\* Lines 1103-1106: terminate() is sent to the worker of name when the
\* terminated process dep is in waits[name], it failed, and name is still in
\* processes.
ShouldTerminate(name, dep, failed, ps) ==
    In(dep, waits(name)) /\ failed /\ name \in ps

\* A fault that drops the test "not waits[name]" of line 1109.
SetWhenUnset(wait_on, isset) == ~isset

\* A fault that sets the event while one dependency is still waited on.
SetOneEarly(wait_on, isset) == Len(wait_on) <= 1 /\ ~isset

\* Line 1109: the event is set when nothing is left to wait on.
ShouldSet(wait_on, isset) == wait_on = <<>> /\ ~isset

\* Lines 1102-1110: one iteration of "for name in waits".  Process.terminate()
\* sends SIGTERM, whose default action ends the worker before it runs any
\* further statement; the orchestrator then sleeps 0.1 s.  Terminating a worker
\* that has already exited changes nothing.
HandleWait ==
    /\ pc = "waits"
    /\ inner # <<>>
    /\ LET name == Head(inner)
           hit == In(proc, waits(name))
           kill == ShouldTerminate(name, proc, is_failure, processes)
           left == IF hit THEN ListRemove(waits(name), proc) ELSE waits(name)
           setit == ShouldSet(left, events[name])
       IN  /\ recipies' = [recipies EXCEPT ![name].wait_on = left]
           /\ terminated' = [terminated EXCEPT ![name] = @ \/ kill]
           /\ wstate' = IF kill THEN [wstate EXCEPT ![name] = "exited"] ELSE wstate
           /\ exitcode' = IF kill /\ wstate[name] # "exited"
                          THEN [exitcode EXCEPT ![name] = -15] ELSE exitcode
           /\ events' = IF setit THEN [events EXCEPT ![name] = TRUE] ELSE events
           /\ gatesets' = IF setit THEN [gatesets EXCEPT ![name] = @ + 1] ELSE gatesets
    /\ inner' = Tail(inner)
    /\ UNCHANGED <<aux, failures, removed, named, cleanup, dlvars, registered, steps, pc, tospawn, processes, fails, snapshot,
                   proc, is_failure, ran, result>>

\* The loop "for name in waits" is over.
WaitsDone ==
    /\ pc = "waits"
    /\ inner = <<>>
    /\ LET nxt == AfterProc(snapshot, processes)
       IN  /\ pc' = nxt.pc
           /\ snapshot' = nxt.snapshot
    /\ proc' = 0
    /\ UNCHANGED <<aux, failures, removed, named, cleanup, dlvars, recipies, registered, steps, tospawn, events, processes,
                   fails, is_failure, inner, wstate, exitcode, ran, terminated,
                   gatesets, result>>

\* A fault that drops the test of line 1112.
BuildOutcomeIgnored(fl) == "returned"

\* Lines 1112-1138: the summary.  With failures the run ends in sys.exit(1),
\* without it returns.  The steps that the summary names are kept in named;
\* the log tails that are printed and the removal of the prefix are no part of
\* the state here.
BuildOutcome(fl) == IF fl # <<>> THEN "exit1" ELSE "returned"

\* Lines 1114-1127: the name of a failed step is written inside the with block
\* that opens its log, so only when the log exists; FileNotFoundError is
\* passed over in silence.
Named(fl, logs) == {f \in Elems(fl) : f \in logs}

\* The log files that can exist when the summary runs: the log of every step
\* whose worker reached line 919, and any log left by an earlier run (the log
\* directory is not cleaned).
LogSets == {L \in SUBSET Names : \A n \in Names : ran[n] > 0 => n \in L}

\* A fault that removes the archive of the prefix with the prefix.
CleanupWithArchive(flag) == IF flag THEN {"prefix", "archive"} ELSE {}

\* Lines 1128-1129 and 1137-1138 with Builder.cleanup, lines 974-978: when the
\* cleanup argument is true the prefix is removed with rmtree, and nothing
\* else.
Cleanup(flag) == IF flag THEN {"prefix"} ELSE {}

Summary ==
    /\ pc = "summary"
    /\ result' = BuildOutcome(fails)
    /\ \E logs \in LogSets : named' = Named(fails, logs)
    /\ \E flag \in BOOLEAN :
          /\ cleanup' = <<flag>>
          /\ removed' = removed \cup Cleanup(flag)
    /\ pc' = "done"
    /\ UNCHANGED <<aux, failures, dlvars, recipies, registered, steps, tospawn, events, processes,
                   fails, snapshot, proc, is_failure, inner, wstate, exitcode,
                   ran, terminated, gatesets>>

----------------------------------------------------------------------------
\* Builder.run, the worker of one step.

\* A fault that drops the polling loop of lines 909-910.
GateIgnored(name) == TRUE

\* Lines 909-910: the worker leaves the polling loop once the event is set.
GateOpen(name) == events[name]

\* A fault that clears the event once the worker has seen it set.
GateCleared(isset) == FALSE

\* Lines 909-910: the worker calls event.is_set() and nothing else of the
\* event, which stays as it is.
GateRead(isset) == isset

\* Lines 909-965: the gate is passed, the directories and the log are set up
\* and the build action is invoked.
WorkerStart(name) ==
    /\ wstate[name] = "waiting"
    /\ GateOpen(name)
    /\ events' = [events EXCEPT ![name] = GateRead(events[name])]
    /\ wstate' = [wstate EXCEPT ![name] = "running"]
    /\ ran' = [ran EXCEPT ![name] = @ + 1]
    /\ UNCHANGED <<aux, failures, removed, named, cleanup, dlvars, recipies, registered, steps, pc, tospawn, processes,
                   fails, snapshot, proc, is_failure, inner, exitcode,
                   terminated, gatesets, result>>

\* Lines 912-963: a statement before the build action raises (the archive
\* cannot be extracted, a directory cannot be made): the exception is not
\* caught and the process exits with status 1.
WorkerSetupFault(name) ==
    /\ wstate[name] = "waiting"
    /\ GateOpen(name)
    /\ wstate' = [wstate EXCEPT ![name] = "exited"]
    /\ exitcode' = [exitcode EXCEPT ![name] = 1]
    /\ UNCHANGED <<aux, failures, removed, named, cleanup, dlvars, recipies, registered, steps, pc, tospawn, events, processes,
                   fails, snapshot, proc, is_failure, inner, ran, terminated,
                   gatesets, result>>

\* Lines 964-972: the build action returns (status 0) or raises, which is
\* caught and ends in sys.exit(1).
ActionStatus(raised) == IF raised THEN 1 ELSE 0

WorkerFinish(name) ==
    /\ wstate[name] = "running"
    /\ \E raised \in BOOLEAN :
          exitcode' = [exitcode EXCEPT ![name] = ActionStatus(raised)]
    /\ wstate' = [wstate EXCEPT ![name] = "exited"]
    /\ UNCHANGED <<aux, failures, removed, named, cleanup, dlvars, recipies, registered, steps, pc, tospawn, events, processes,
                   fails, snapshot, proc, is_failure, inner, ran, terminated,
                   gatesets, result>>

----------------------------------------------------------------------------
\* Download: which of the optional parts of a descriptor are configured
\* (md5sum, signature_tpl, fallback_url_tpl are not None).
Descriptors == [md5sum : BOOLEAN, signature : BOOLEAN, fallback : BOOLEAN]

\* What a download worker meets: the destination file exists, its checksum is
\* the configured one, the primary and the fallback url can be fetched, the
\* checksum of the fetched file is the configured one, gpg accepts the signature.
Environments ==
    [exists : BOOLEAN, cached_ok : BOOLEAN, primary_ok : BOOLEAN,
     fallback_ok : BOOLEAN, fetched_ok : BOOLEAN, sig_ok : BOOLEAN]

\* A fault that reports a fetched file when the primary url fails and no
\* fallback is configured.
fetch_file_swallowed(d, env) ==
    IF env.primary_ok THEN "fetched"
    ELSE IF d.fallback THEN (IF env.fallback_ok THEN "fetched" ELSE "raise")
    ELSE "fetched"

\* Download.fetch_file, lines 530-535: "fetched" when a (path, True) pair is
\* returned, "raise" when the exception of the fallback fetch propagates,
\* "None" when the except block is left without a return.
fetch_file(d, env) ==
    IF env.primary_ok THEN "fetched"
    ELSE IF d.fallback THEN (IF env.fallback_ok THEN "fetched" ELSE "raise")
    ELSE "None"

\* Download.validate_md5sum, lines 597-602, for a configured checksum:
\* verify_checksum raises on a mismatch, which is caught and gives False.
validate_md5sum(matches) == matches

\* A fault that keeps an existing file without comparing its checksum.
file_is_valid_unchecked(d, env) == d.md5sum /\ env.exists

\* Lines 613-623: the cached file is kept.
file_is_valid(d, env) == d.md5sum /\ env.exists /\ validate_md5sum(env.cached_ok)

\* A configured check of the fetched file does not pass.
Rejected(d, env) ==
    \/ d.md5sum /\ ~env.fetched_ok
    \/ d.signature /\ ~env.sig_ok

\* Lines 530-535: the urls that fetch_file hands to download_url, in order.
urls_tried(d, env) ==
    IF env.primary_ok THEN <<"url">>
    ELSE IF d.fallback THEN <<"url", "fallback_url">>
    ELSE <<"url">>

\* Download.__call__, lines 611-634, as the target of a worker process.
\* exitcode is the status of the process: 0 when the call returns, whatever it
\* returns, and 1 when it raises.  The call raises when fetch_file raises, when
\* fetch_file gives None (unpacking None at line 614 or 623), and at line 627,
\* where fetch_signature is called without its version argument.  attempts
\* lists the urls that were handed to download_url for the file.
DownloadCall(d, env, force) ==
    LET fetch == force \/ ~file_is_valid(d, env)
        got == fetch_file(d, env)
    IN  IF ~fetch
        THEN [exitcode |-> 0, downloaded |-> FALSE, valid |-> TRUE,
              rejected |-> FALSE, attempts |-> <<>>]
        ELSE IF got # "fetched"
        THEN [exitcode |-> 1, downloaded |-> FALSE, valid |-> TRUE,
              rejected |-> FALSE, attempts |-> urls_tried(d, env)]
        ELSE IF d.signature
        THEN [exitcode |-> 1, downloaded |-> TRUE, valid |-> TRUE,
              rejected |-> Rejected(d, env), attempts |-> urls_tried(d, env)]
        ELSE [exitcode |-> 0, downloaded |-> TRUE,
              valid |-> (d.md5sum => validate_md5sum(env.fetched_ok)),
              rejected |-> Rejected(d, env), attempts |-> urls_tried(d, env)]

\* What Download.__call__ can do, over every descriptor and environment.
ForcedResults ==
    {DownloadCall(d, env, TRUE) : d \in Descriptors, env \in Environments}

CachedResults ==
    {DownloadCall(d, env, FALSE) : d \in Descriptors, env \in Environments}

DownloadResults(force) == IF force THEN ForcedResults ELSE CachedResults

\* The worker of download_files for one step runs Download.__call__ to its end.
\* The optional parts of the descriptor and the environment are drawn here,
\* the one place where they are read.
DownloadWorker(name) ==
    /\ dstate[name] = "running"
    /\ \E r \in DownloadResults(force_download) :
          /\ dexit' = [dexit EXCEPT ![name] = r.exitcode]
          /\ rejected' = [rejected EXCEPT ![name] = r.rejected]
    /\ dstate' = [dstate EXCEPT ![name] = "exited"]
    /\ UNCHANGED <<aux, failures, removed, named, cleanup, recipies, registered, steps, pc, tospawn, events, processes,
                   fails, snapshot, proc, is_failure, inner, wstate, exitcode,
                   ran, terminated, gatesets, result, force_download, dtospawn,
                   dprocesses, dfails, dsnapshot>>

----------------------------------------------------------------------------
\* One call of a Download object, on its own.

\* No build is under way: the builder has an empty registry of steps.
Quiet ==
    /\ recipies = [n \in Names |-> Recipe(n, {}, FALSE)]
    /\ registered = recipies
    /\ steps = <<>>
    /\ force_download = FALSE
    /\ pc = "idle"
    /\ Fresh

\* A Download object with any optional parts, in any environment, is about to
\* be called with any force_download.
InitDownload ==
    /\ Quiet
    /\ download \in {<<[d |-> d, env |-> env, force |-> force]>> :
                       d \in Descriptors, env \in Environments, force \in BOOLEAN}
    /\ returned = <<>>
    /\ NoRun
    /\ NoArchive
    /\ NoPure

\* Download.__call__ runs to its end.
Invoke ==
    /\ download # <<>>
    /\ returned = <<>>
    /\ returned' = <<DownloadCall(download[1].d, download[1].env, download[1].force)>>
    /\ UNCHANGED <<orch, pure, download, runvars, archvars>>

----------------------------------------------------------------------------
\* One call of Builder.run in its worker process, statement by statement, from
\* the point where the gate has been seen set (line 910).

\* The names the caller's environment can hold.
CallerNames == {"PATH", "RELENV_DATA", "HOME"}

\* What Builder.run is called with and where: the step has a download, the
\* platform is win32, the caller's environment, the build is a cross build.
RunInputs ==
    [download : BOOLEAN, win32 : BOOLEAN, environ : SUBSET CallerNames,
     cross : BOOLEAN]

InitRun ==
    /\ Quiet
    /\ NoDownload
    /\ run \in {<<i>> : i \in RunInputs}
    /\ rpc = "makedirs"
    /\ cwd = "origin"
    /\ logfp = "none"
    /\ handler = FALSE
    /\ logtext = <<>>
    /\ buildenv = {}
    /\ fault = "none"
    /\ status = <<>>
    /\ NoArchive
    /\ NoPure

\* An exception that no statement of Builder.run catches ends the worker
\* process with status 1; nothing else of the worker's state changes.
Raise(stmt) ==
    /\ fault' = stmt
    /\ rpc' = "exit"
    /\ status' = <<1>>

\* Lines 912-918: the build, sources, logs and prefix directories are made.
RunMakedirs ==
    /\ rpc = "makedirs"
    /\ \E ok \in BOOLEAN :
          IF ok THEN rpc' = "open" /\ UNCHANGED <<fault, status>>
          ELSE Raise("makedirs")
    /\ UNCHANGED <<orch, pure, archvars, download, returned, run, cwd, logfp, handler, logtext,
                   buildenv>>

\* Lines 919-922: the log of the step is opened for writing and a logging
\* handler on the same file is attached.
RunOpenLog ==
    /\ rpc = "open"
    /\ \E ok \in BOOLEAN :
          IF ok
          THEN /\ logfp' = "open"
               /\ handler' = TRUE
               /\ rpc' = "enter"
               /\ UNCHANGED <<fault, status>>
          ELSE Raise("open") /\ UNCHANGED <<logfp, handler>>
    /\ UNCHANGED <<orch, pure, archvars, download, returned, run, cwd, logtext, buildenv>>

\* Lines 927-933: the working directory is remembered; a step with a download
\* extracts its archive and changes into the source directory, a step without
\* one changes into the prefix.
RunEnter ==
    /\ rpc = "enter"
    /\ \E outcome \in {"ok", "extract", "chdir"} :
          /\ outcome = "extract" => run[1].download
          /\ IF outcome = "ok"
             THEN /\ cwd' = IF run[1].download THEN "source" ELSE "prefix"
                  /\ rpc' = "env"
                  /\ UNCHANGED <<fault, status>>
             ELSE Raise(outcome) /\ UNCHANGED cwd
    /\ UNCHANGED <<orch, pure, archvars, download, returned, run, logfp, handler, logtext,
                   buildenv>>

\* The caller variables Builder.run copies by name: PATH (line 939) and
\* RELENV_DATA (lines 948-949).
AllowList == {"PATH", "RELENV_DATA"}

\* A fault that copies os.environ on every platform.
EnvNamesInherited(i) ==
    i.environ
    \cup {"RELENV_DEBUG", "RELENV_HOST", "RELENV_HOST_ARCH", "RELENV_BUILD",
          "RELENV_BUILD_ARCH", "RELENV_PY_VERSION", "RELENV_PY_MAJOR_VERSION"}
    \cup (IF "RELENV_DATA" \in i.environ THEN {"RELENV_DATA"} ELSE {})
    \cup (IF i.cross THEN {"RELENV_NATIVE_PY"} ELSE {})

\* Lines 935-952: the environment map of the build action.
EnvNames(i) ==
    (IF i.win32 THEN i.environ ELSE {"PATH"})
    \cup {"RELENV_DEBUG", "RELENV_HOST", "RELENV_HOST_ARCH", "RELENV_BUILD",
          "RELENV_BUILD_ARCH", "RELENV_PY_VERSION", "RELENV_PY_MAJOR_VERSION"}
    \cup (IF "RELENV_DATA" \in i.environ THEN {"RELENV_DATA"} ELSE {})
    \cup (IF i.cross THEN {"RELENV_NATIVE_PY"} ELSE {})

\* Lines 935-954: the map is built and handed to populate_env.  Reading PATH
\* (line 939) raises when the caller has none; the lookup of the python recipe
\* (line 946) and populate_env (line 954) can raise.
RunEnv ==
    /\ rpc = "env"
    /\ \E ok \in BOOLEAN :
          /\ ok => (run[1].win32 \/ "PATH" \in run[1].environ)
          /\ IF ok
             THEN /\ buildenv' = EnvNames(run[1])
                  /\ rpc' = "header"
                  /\ UNCHANGED <<fault, status>>
             ELSE Raise("env") /\ UNCHANGED buildenv
    /\ UNCHANGED <<orch, pure, archvars, download, returned, run, cwd, logfp, handler, logtext>>

\* Lines 956-963: the directories and the environment are written to the log.
RunHeader ==
    /\ rpc = "header"
    /\ logtext' = Append(logtext, "header")
    /\ rpc' = "action"
    /\ UNCHANGED <<orch, pure, archvars, download, returned, run, cwd, logfp, handler, buildenv,
                   fault, status>>

\* Lines 964-966: the build action is called; it returns or raises.
RunAction ==
    /\ rpc = "action"
    /\ \E raised \in BOOLEAN :
          IF raised THEN fault' = "action" /\ rpc' = "except"
          ELSE fault' = fault /\ rpc' = "finally"
    /\ UNCHANGED <<orch, pure, archvars, download, returned, run, cwd, logfp, handler, logtext,
                   buildenv, status>>

\* A fault that drops line 967.
ExceptLogsNothing(text) == text

\* Line 967: the traceback is written to the log of the step.
ExceptLogs(text) == Append(text, "traceback")

\* Lines 966-968: the exception of the build action is caught, its traceback
\* written, and sys.exit(1) called.
RunExcept ==
    /\ rpc = "except"
    /\ logtext' = ExceptLogs(logtext)
    /\ rpc' = "finally"
    /\ UNCHANGED <<orch, pure, archvars, download, returned, run, cwd, logfp, handler, buildenv,
                   fault, status>>

\* Lines 969-972, then the end of the process: the working directory is
\* restored, the handler detached and the log closed; the status is 0 when the
\* action returned and 1 after sys.exit(1).
RunFinally ==
    /\ rpc = "finally"
    /\ cwd' = "origin"
    /\ handler' = FALSE
    /\ logfp' = "closed"
    /\ status' = <<ActionStatus(fault = "action")>>
    /\ rpc' = "exit"
    /\ UNCHANGED <<orch, pure, archvars, download, returned, run, logtext, buildenv, fault>>

----------------------------------------------------------------------------
\* create_archive, called by finalize, the build action of a step without a
\* download.  A path and a pattern are sequences of characters.

\* Files that a prefix can hold, relative to the prefix.
lib_x_so == <<"l", "i", "b", "/", "x", ".", "s", "o">>
bin_python3 == <<"b", "i", "n", "/", "p", "y", "t", "h", "o", "n", "3">>
lib_x_o == <<"l", "i", "b", "/", "x", ".", "o">>
x_so == <<"x", ".", "s", "o">>
lib_x_so_1 == <<"l", "i", "b", "/", "x", ".", "s", "o", ".", "1">>
include_a_b_h == <<"i", "n", "c", "l", "u", "d", "e", "/", "a", "/", "b", ".", "h">>

SamplePaths == {lib_x_so, bin_python3, lib_x_o, x_so, lib_x_so_1, include_a_b_h}

\* Patterns of the allow-list of finalize, lines 1460-1473.
any_so == <<"*", ".", "s", "o">>
bin_python_any == <<"/", "b", "i", "n", "/", "p", "y", "t", "h", "o", "n", "*">>
lib_any_so_any == <<"/", "l", "i", "b", "/", "*", ".", "s", "o", ".", "*">>
include_any == <<"/", "i", "n", "c", "l", "u", "d", "e", "/", "*">>

SampleGlobs == {any_so, bin_python_any, lib_any_so_any, include_any}

\* The longest allow-list the model is checked over.
MaxGlobs == 2

\* The lists of at most n patterns.
GlobLists(n) == UNION {[1..k -> SampleGlobs] : k \in 0..n}

\* fnmatch.fnmatch of line 1502 on a posix path: the whole name must match;
\* "*" matches any run of characters, "/" included, "?" matches one character,
\* any other character of the pattern matches itself.  (The patterns of the
\* program hold no "[".)
RECURSIVE fnmatch(_, _)
fnmatch(name, pat) ==
    IF pat = <<>> THEN name = <<>>
    ELSE IF Head(pat) = "*"
    THEN fnmatch(name, Tail(pat)) \/ (name # <<>> /\ fnmatch(Tail(name), pat))
    ELSE IF Head(pat) = "?"
    THEN name # <<>> /\ fnmatch(Tail(name), Tail(pat))
    ELSE name # <<>> /\ Head(name) = Head(pat) /\ fnmatch(Tail(name), Tail(pat))

\* A fault that matches the relative path as it is.
Unrooted(relpath) == relpath

\* Line 1502: "/" / relpath, the relative path written from the root.
Rooted(relpath) == <<"/">> \o relpath

\* Lines 1500-1504: the patterns are tried in order until one matches.
RECURSIVE matches(_, _)
matches(relpath, gl) ==
    IF gl = <<>> THEN FALSE
    ELSE IF fnmatch(Rooted(relpath), Head(gl)) THEN TRUE
    ELSE matches(relpath, Tail(gl))

\* finalize runs as the build action of Builder.run, which has changed into
\* the prefix (line 933) and holds the log open; it calls create_archive on the
\* prefix (line 1477).
InitArchive ==
    /\ Quiet
    /\ NoDownload
    /\ run = <<[download |-> FALSE, win32 |-> FALSE, environ |-> {"PATH"},
               cross |-> FALSE]>>
    /\ rpc = "action"
    /\ cwd = "prefix"
    /\ logfp = "open"
    /\ handler = TRUE
    /\ logtext = <<"header">>
    /\ buildenv = EnvNames(run[1])
    /\ fault = "none"
    /\ status = <<>>
    /\ toarchive \in SUBSET SamplePaths
    /\ globs \in GlobLists(MaxGlobs)
    /\ pending = toarchive
    /\ tarfp = {}
    /\ NoPure

\* Lines 1495-1508: one file that os.walk yields.  It is added under its
\* relative path when a pattern matches; tarfp.add opens the relative path
\* from the working directory, which is the prefix, and otherwise raises.
ArchiveFile ==
    /\ fault = "none"
    /\ \E f \in pending :
          IF matches(f, globs)
          THEN IF cwd = "prefix"
               THEN /\ tarfp' = tarfp \cup {f}
                    /\ pending' = pending \ {f}
                    /\ fault' = fault
               ELSE /\ fault' = "action"
                    /\ UNCHANGED <<tarfp, pending>>
          ELSE /\ pending' = pending \ {f}
               /\ UNCHANGED <<tarfp, fault>>
    /\ UNCHANGED <<orch, pure, download, returned, toarchive, globs, run, rpc, cwd,
                   logfp, handler, logtext, buildenv, status>>

----------------------------------------------------------------------------
\* check_files and compare_versions: the check for newer versions.  A version
\* string is the list of its components, as LooseVersion splits it: numbers and
\* alphabetic words.  A word is kept as its rank in the alphabetic order of the
\* words used here ("bogus" 1, "w" 2).

Num(k) == [word |-> FALSE, n |-> k]
Word(k) == [word |-> TRUE, n |-> k]

v3_10_9 == <<Num(3), Num(10), Num(9)>>
v3_10_10 == <<Num(3), Num(10), Num(10)>>
v3_10 == <<Num(3), Num(10)>>
v3_11_0 == <<Num(3), Num(11), Num(0)>>
v3_10_9w == <<Num(3), Num(10), Num(9), Word(2)>>
bogus == <<Word(1)>>

SampleVersions == {v3_10_9, v3_10_10, v3_10, v3_11_0, v3_10_9w, bogus}

\* packaging.version.parse, lines 409 and 422: a release of numbers parses, a
\* string with an alphabetic word that is no release marker raises
\* InvalidVersion.
parse_ok(v) == \A i \in 1..Len(v) : ~v[i].word

\* The release of a parsed version, compared with trailing zeros added.
Release(v, len) == [i \in 1..len |-> IF i <= Len(v) THEN v[i].n ELSE 0]

RECURSIVE LexLess(_, _)
LexLess(a, b) ==
    IF a = <<>> THEN FALSE
    ELSE IF Head(a) # Head(b) THEN Head(a) < Head(b)
    ELSE LexLess(Tail(a), Tail(b))

\* version > current of two parsed versions.
StrictGreater(v, cur) ==
    LET len == IF Len(v) > Len(cur) THEN Len(v) ELSE Len(cur)
    IN  LexLess(Release(cur, len), Release(v, len))

\* The comparison of two LooseVersion objects: of their component lists, as
\* Python compares lists.  A number against a word raises TypeError.
RECURSIVE loose_cmp(_, _)
loose_cmp(a, b) ==
    IF a = <<>> THEN (IF b = <<>> THEN "eq" ELSE "lt")
    ELSE IF b = <<>> THEN "gt"
    ELSE IF Head(a) = Head(b) THEN loose_cmp(Tail(a), Tail(b))
    ELSE IF Head(a).word # Head(b).word THEN "TypeError"
    ELSE IF Head(a).n < Head(b).n THEN "lt" ELSE "gt"

\* Line 428, versions.sort(): the sort ends only when it has compared every
\* two versions that are neighbours in the result, and two versions that
\* cannot be compared have no comparable version between them, so the sort
\* raises TypeError exactly when two of the versions cannot be compared.
sort_raises(versions) ==
    \E a, b \in versions : loose_cmp(a, b) = "TypeError"

\* Lines 432-437: what compare_versions prints for one version.
compare_versions(cur, v, loose) ==
    IF ~loose THEN (IF StrictGreater(v, cur) THEN "newer" ELSE "none")
    ELSE IF loose_cmp(v, cur) = "TypeError" THEN "unable"
    ELSE IF loose_cmp(v, cur) = "gt" THEN "newer" ELSE "none"

\* check_files, lines 408-429, on the versions that func gave for the links of
\* the page.  The current version is parsed, or made a LooseVersion when it
\* does not parse; the found versions are then all made LooseVersion, or
\* parsed with those that do not parse left out; the list is sorted and
\* handed to compare_versions.
check_files(current, found) ==
    LET loose == ~parse_ok(current)
        versions == IF loose THEN found ELSE {v \in found : parse_ok(v)}
    IN  IF loose /\ sort_raises(versions)
        THEN [crashed |-> TRUE, newer |-> {}, unable |-> {}]
        ELSE [crashed |-> FALSE,
              newer |-> {v \in versions :
                            compare_versions(current, v, loose) = "newer"},
              unable |-> {v \in versions :
                            compare_versions(current, v, loose) = "unable"}]

InitVersions ==
    /\ Quiet
    /\ NoDownload
    /\ NoRun
    /\ NoArchive
    /\ vcheck \in {<<[current |-> c, found |-> f]>> :
                     c \in SampleVersions, f \in SUBSET SampleVersions}
    /\ vout = <<>>
    /\ NoTail
    /\ NoShebang
    /\ NoLate

\* check_files runs to its end.
CheckVersions ==
    /\ vcheck # <<>>
    /\ vout = <<>>
    /\ vout' = <<check_files(vcheck[1].current, vcheck[1].found)>>
    /\ UNCHANGED <<orch, dlcall, runvars, archvars, vcheck, tailvars, shebvars, late>>

----------------------------------------------------------------------------
\* The tail of the log of a failed step that the summary of Builder.build
\* prints.  A log is known by its length.

\* Line 1119: the size of the window.
Window == 4096

\* The longest log the model is checked over.
MaxLog == 4100

\* A fault that drops the test of line 1120.
tail_offset_unclamped(end) == end - Window

\* Lines 1117-1123: fp.seek(0, 2) and fp.tell() give the length; the position
\* to read from is length - 4096 when that is positive and 0 otherwise.
tail_offset(end) ==
    LET ind == end - Window
    IN  IF ind > 0 THEN ind ELSE 0

InitTail ==
    /\ Quiet
    /\ NoDownload
    /\ NoRun
    /\ NoArchive
    /\ NoVersions
    /\ NoShebang
    /\ NoLate
    /\ tailin \in {<<end>> : end \in 0..MaxLog}
    /\ tailout = <<>>

\* Lines 1116-1125 for a log that exists: fp.read() gives the log from the
\* position sought to its end.
PrintTail ==
    /\ tailin # <<>>
    /\ tailout = <<>>
    /\ tailout' = <<[from |-> tail_offset(tailin[1]), to |-> tailin[1]]>>
    /\ UNCHANGED <<orch, dlcall, runvars, archvars, versvars, tailin, shebvars, late>>

----------------------------------------------------------------------------
\* The shebangs finalize rewrites in the bin directory of the prefix.  A text
\* is a sequence of pieces that each stand for a run of characters; the
\* pieces are taken where the texts compared can differ, so that reading the
\* first len(old) characters of a file is reading the first Len(old) pieces.

\* A piece that is not valid UTF-8.
Undecodable == "0xff"

\* env["RELENV_PY_MAJOR_VERSION"], e.g. "3.10": the major number and the rest.
PyMajorVersion == <<"3", ".10">>

\* str.split(".", 1)[0]: what stands before the first dot.
SplitFirst(version) == SubSeq(version, 1, 1)

\* Line 1405: "#!{}".format(bindir / f"python{env['RELENV_PY_MAJOR_VERSION']}").
full_shebang == <<"#!", "bindir/python">> \o PyMajorVersion

\* Lines 1406-1408: the same with the version cut at its first dot.
major_shebang == <<"#!", "bindir/python">> \o SplitFirst(PyMajorVersion)

\* A fault that lists the shorter shebang first.
shebangs_major_first == <<major_shebang, full_shebang>>

\* Lines 1404-1409: the list finalize iterates over, in its order.
shebangs == <<full_shebang, major_shebang>>

\* relenv.common.format_shebang: a launcher header that finds the interpreter
\* relative to the script; it names no directory of the build.
format_shebang(python) == <<"#!/bin/sh", "exec $(dirname $0)", python, "\n">>

\* Line 1410.
newshebang == format_shebang("/python3")

\* bytes.decode() raises UnicodeError on a piece that is not valid UTF-8.
Decodable(data) == \A i \in 1..Len(data) : data[i] # Undecodable

\* fp.read(n) on a file of fewer than n characters gives all of them.
ReadUpTo(data, n) == SubSeq(data, 1, IF n < Len(data) THEN n ELSE Len(data))

\* patch_shebang, lines 1210-1239: the text of the file after the call.  The
\* file is rewritten as new followed by everything after the first len(old)
\* characters when those characters decode and equal old, and is left alone
\* otherwise.
patch_shebang(data, old, new) ==
    LET head == ReadUpTo(data, Len(old))
    IN  IF ~Decodable(head) THEN data
        ELSE IF head # old THEN data
        ELSE new \o SubSeq(data, Len(old) + 1, Len(data))

\* The number of files in the bin directory.
MaxFiles == 3

BinFiles == 1..MaxFiles

\* How a file of the bin directory begins: the two shebangs of the build, the
\* shebang of a shell script, a file shorter than either shebang, a binary.
SampleHeads ==
    {full_shebang, major_shebang, <<"#!", "/bin/sh">>, <<"#!">>,
     <<Undecodable, "ELF">>}

\* How it goes on: not at all, or with the end of the line and a body.
SampleRests == {<<>>, <<"\n", "body">>}

SampleTexts == {h \o r : h \in SampleHeads, r \in SampleRests}

InitShebang ==
    /\ Quiet
    /\ NoDownload
    /\ NoRun
    /\ NoArchive
    /\ NoVersions
    /\ NoTail
    /\ NoLate
    /\ binfiles \in [BinFiles -> SampleTexts]
    /\ original = binfiles
    /\ shebang = 1
    /\ walk = BinFiles

\* patch_shebangs, lines 1250-1255: one file that os.walk yields is handed to
\* patch_shebang with the shebang of this pass.
PatchFile ==
    /\ shebang \in 1..Len(shebangs)
    /\ \E file \in walk :
        /\ binfiles' = [binfiles EXCEPT
               ![file] = patch_shebang(binfiles[file], shebangs[shebang], newshebang)]
        /\ walk' = walk \ {file}
    /\ UNCHANGED <<orch, dlcall, runvars, archvars, versvars, tailvars, original,
                   shebang, late>>

\* Lines 1411-1417: the walk is over; the loop goes on to the next shebang and
\* walks the directory again, or ends.
NextShebangPass ==
    /\ shebang \in 1..Len(shebangs)
    /\ walk = {}
    /\ shebang' = shebang + 1
    /\ walk' = IF shebang < Len(shebangs) THEN BinFiles ELSE {}
    /\ UNCHANGED <<orch, dlcall, runvars, archvars, versvars, tailvars, binfiles,
                   original, late>>

----------------------------------------------------------------------------
\* A later build on the same Builder.

\* Builder.build(steps) is called again on the builder once an earlier call
\* has ended, by returning or by the SystemExit of sys.exit(1) that the caller
\* caught.  Lines 1057-1060: events, waits, processes and fails are new and
\* empty; self.recipies is the dict the earlier call left, and its workers
\* are gone.
BuildAgain ==
    /\ pc = "done"
    /\ steps' \in StepLists
    /\ pc' = "spawn"
    /\ tospawn' = steps'
    /\ events' = [n \in Names |-> FALSE]
    /\ processes' = {}
    /\ fails' = <<>>
    /\ snapshot' = <<>>
    /\ proc' = 0
    /\ is_failure' = FALSE
    /\ inner' = <<>>
    /\ wstate' = [n \in Names |-> "unborn"]
    /\ exitcode' = [n \in Names |-> 0]
    /\ ran' = [n \in Names |-> 0]
    /\ terminated' = [n \in Names |-> FALSE]
    /\ gatesets' = [n \in Names |-> 0]
    /\ result' = "none"
    /\ dtospawn' = steps'
    /\ named' = {}
    /\ cleanup' = <<>>
    /\ UNCHANGED <<aux, recipies, registered, force_download, dprocesses, dfails,
                   dsnapshot, dstate, dexit, rejected, failures, removed>>

----------------------------------------------------------------------------
\* Builder.copy and what the copy shares with the builder it was made from.
\* Lists and Download objects live on a heap and a recipe holds their
\* addresses, so that two recipes can hold the same object.

\* The steps of the builder that is copied; python is the step whose download
\* Builder.copy rewrites (lines 841-842).
python == 1

CopyNames == 1..3

\* No object: the download of a step that has none.
None == 0

\* The versions and checksums a download descriptor is given.
CopyVersions == {"3.10", "3.11"}

CopySums == {"m1", "m2"}

\* Download.copy, lines 488-499: a new Download object with the same fields.
DownloadCopy(obj) == [version |-> obj.version, md5sum |-> obj.md5sum]

\* The address of the Download object that copy makes for a step.
CopyAddr(name) == name + 3

\* Builder.copy, lines 824-831: the recipe of a step in the copy.  build_func
\* and wait_on are the objects of the original recipe; download is a copy
\* of the Download object, or None.
CopyRecipe(rec, name) ==
    [wait_on |-> rec.wait_on,
     download |-> IF rec.download # None THEN CopyAddr(name) ELSE None]

\* A builder with three steps: python has a download and waits on any of the
\* other two, the second may have a download, the third may wait on it.
InitCopy ==
    /\ Quiet
    /\ NoDownload
    /\ NoRun
    /\ NoArchive
    /\ NoVersions
    /\ NoTail
    /\ NoShebang
    /\ NoDirs
    /\ NoClean
    /\ NoImport
    /\ \E w1 \in {<<>>, <<2>>, <<2, 3>>}, w3 \in {<<>>, <<2>>}, d2 \in BOOLEAN :
          /\ lists = <<w1, <<>>, w3>>
          /\ dlobjs = <<  <<[version |-> "3.10", md5sum |-> "m1"]>>,
                          IF d2 THEN <<[version |-> "3.10", md5sum |-> "m1"]>> ELSE <<>>,
                          <<>>, <<>>, <<>>, <<>> >>
          /\ origrec = [n \in CopyNames |->
                           [wait_on |-> n,
                            download |-> IF n = 1 \/ (n = 2 /\ d2) THEN n ELSE None]]
    /\ copyrec = <<>>
    /\ before = <<>>

\* What a builder's recipies hold: the recipes with the objects in place of
\* their addresses.
Contents(recs) ==
    [n \in CopyNames |->
        [wait_on |-> lists[recs[n].wait_on],
         download |-> IF recs[n].download = None THEN <<>>
                      ELSE dlobjs[recs[n].download]]]

\* Builder.copy(version, md5sum), lines 823-843.
BuilderCopy ==
    /\ origrec # <<>>
    /\ copyrec = <<>>
    /\ \E version \in CopyVersions, md5sum \in CopySums :
        LET recipies_ == [n \in CopyNames |-> CopyRecipe(origrec[n], n)]
            made == [a \in 1..6 |->
                        IF a > 3 /\ origrec[a - 3].download # None
                        THEN <<DownloadCopy(dlobjs[origrec[a - 3].download][1])>>
                        ELSE dlobjs[a]]
        IN  /\ copyrec' = <<recipies_>>
            /\ dlobjs' = [made EXCEPT
                   ![recipies_[python].download] =
                       <<[version |-> version, md5sum |-> md5sum]>>]
    /\ before' = <<Contents(origrec)>>
    /\ UNCHANGED <<orch, dlcall, runvars, archvars, versvars, tailvars, shebvars,
                   dirsvars, cleanvars, importvars, lists, origrec>>

\* The caller changes the version and checksum of a download of the copy, as
\* lines 841-842 do.
SetDownload ==
    /\ copyrec # <<>>
    /\ \E n \in CopyNames, version \in CopyVersions, md5sum \in CopySums :
          /\ copyrec[1][n].download # None
          /\ dlobjs' = [dlobjs EXCEPT
                 ![copyrec[1][n].download] =
                     <<[version |-> version, md5sum |-> md5sum]>>]
    /\ UNCHANGED <<orch, dlcall, runvars, archvars, versvars, tailvars, shebvars,
                   dirsvars, cleanvars, importvars, lists, origrec, copyrec, before>>

RECURSIVE RemoveFinished(_, _)
\* Lines 1102-1108 over a whole build: every process that ends is removed
\* from the list if it is in it.
RemoveFinished(wait_on, procs) ==
    IF procs = <<>> THEN wait_on
    ELSE RemoveFinished(IF In(Head(procs), wait_on)
                        THEN ListRemove(wait_on, Head(procs)) ELSE wait_on,
                        Tail(procs))

\* The steps arguments the copy is built with.
CopyStepLists == {Ascending(S) : S \in SUBSET CopyNames}

\* Builder.build(steps) on the copy, as far as the lists are concerned: for a
\* requested step wait_on is popped from the shallow dict() of the recipe
\* (lines 1069-1072), so it is the list object of the recipe; it is filtered
\* in place (1073-1075), and the name of every process that ends is removed
\* from it (1108).
BuildCopy ==
    /\ copyrec # <<>>
    /\ \E steps_ \in CopyStepLists :
          lists' = [a \in 1..3 |->
                       IF \E n \in Elems(steps_) : copyrec[1][n].wait_on = a
                       THEN RemoveFinished(FilterWaitOn(lists[a], steps_), steps_)
                       ELSE lists[a]]
    /\ UNCHANGED <<orch, dlcall, runvars, archvars, versvars, tailvars, shebvars,
                   dirsvars, cleanvars, importvars, dlobjs, origrec, copyrec, before>>

----------------------------------------------------------------------------
\* Dirs and its pickling.  An attribute that an object does not have is <<>>,
\* one it has is <<value>>; a path is the sequence of its parts.

Platforms == {"linux", "darwin", "win32"}

\* The attributes of a Dirs object.
DirsAttrs ==
    {"name", "version", "arch", "root", "build", "downloads", "logs", "sources",
     "tmpbuild"}

\* An object that __init__ has not run on: what unpickling hands to
\* __setstate__.
Bare == [a \in DirsAttrs |-> <<>>]

\* Dirs.__init__, lines 656-667; dirs is the WorkDirs of root and tmp the
\* directory tempfile.mkdtemp made.
DirsInit(root, name, arch, version, tmp) ==
    [a \in DirsAttrs |->
        CASE a = "name" -> <<name>>
          [] a = "version" -> <<version>>
          [] a = "arch" -> <<arch>>
          [] a = "root" -> << <<root>> >>
          [] a = "build" -> << <<root, "build">> >>
          [] a = "downloads" -> << <<root, "download">> >>
          [] a = "logs" -> << <<root, "logs">> >>
          [] a = "sources" -> << <<root, "src">> >>
          [] a = "tmpbuild" -> << <<"tmp", name, tmp>> >>]

\* Dirs._triplet, lines 678-685.
Triplet(arch, plat) ==
    IF plat = "darwin" THEN <<arch, "-macos">>
    ELSE IF plat = "win32" THEN <<arch, "-win">>
    ELSE <<arch, "-linux-gnu">>

\* Dirs.prefix, lines 687-689: <<the path>>, or <<>> when reading an
\* attribute raises AttributeError.
Prefix(obj, plat) ==
    IF obj["build"] = <<>> \/ obj["version"] = <<>> \/ obj["arch"] = <<>>
    THEN <<>>
    ELSE << obj["build"][1] \o <<obj["version"][1]>> \o Triplet(obj["arch"][1], plat) >>

\* The keys of the dict of __getstate__, lines 697-706.
StateKeys ==
    {"name", "arch", "root", "build", "downloads", "logs", "sources", "tmpbuild"}

\* Dirs.__getstate__, lines 691-706.
GetStateOf(obj) == [k \in StateKeys |-> obj[k][1]]

\* Dirs.__setstate__, lines 708-722: eight attributes are assigned, the
\* others are as they were.
SetStateOf(obj, state) ==
    [a \in DirsAttrs |->
        IF a \in {"name", "arch", "root", "downloads", "logs", "sources", "build",
                  "tmpbuild"}
        THEN <<state[a]>> ELSE obj[a]]

DirsInputs ==
    {DirsInit(root, name, arch, version, tmp) :
        root \in {"r1", "r2"}, name \in {"python", "openssl"},
        arch \in {"x86_64", "aarch64"}, version \in {"3.10.9", "3.11.1"},
        tmp \in {"t1", "t2"}}

InitDirs ==
    /\ Quiet
    /\ NoDownload
    /\ NoRun
    /\ NoArchive
    /\ NoVersions
    /\ NoTail
    /\ NoShebang
    /\ NoCopy
    /\ NoClean
    /\ NoImport
    /\ platform \in Platforms
    /\ dirsobj \in {<<d>> : d \in DirsInputs}
    /\ pickled = <<>>
    /\ restored = <<>>

\* pickle calls __getstate__ on the object.
GetState ==
    /\ dirsobj # <<>>
    /\ pickled = <<>>
    /\ pickled' = <<GetStateOf(dirsobj[1])>>
    /\ UNCHANGED <<orch, dlcall, runvars, archvars, versvars, tailvars, shebvars,
                   copyvars, cleanvars, importvars, platform, dirsobj, restored>>

\* Unpickling makes an object without calling __init__ and calls
\* __setstate__ on it with the dict.
SetState ==
    /\ pickled # <<>>
    /\ restored = <<>>
    /\ restored' = <<SetStateOf(Bare, pickled[1])>>
    /\ UNCHANGED <<orch, dlcall, runvars, archvars, versvars, tailvars, shebvars,
                   copyvars, cleanvars, importvars, platform, dirsobj, pickled>>

----------------------------------------------------------------------------
\* Builder.clean over a filesystem.  A path is the sequence of its parts and
\* the filesystem is the set of the paths that exist.

\* relenv.common.work_dirs: the directories under the root of a build.
work_dirs(root) ==
    [root |-> <<root>>, build |-> <<root, "build">>, src |-> <<root, "src">>,
     download |-> <<root, "download">>, logs |-> <<root, "logs">>]

\* Lines 801-810 of Builder.__init__: the directories of a builder.
BuilderPrefix == work_dirs("root").build \o <<"3.10.9-x86_64-linux-gnu">>

BuilderSources == work_dirs("root").src

\* Line 993: f"{self.prefix}.tar.xz".
BuilderArchive == work_dirs("root").build \o <<"3.10.9-x86_64-linux-gnu.tar.xz">>

\* q is p or lies under p.
IsUnder(q, p) == Len(q) >= Len(p) /\ SubSeq(q, 1, Len(p)) = p

\* What can exist besides the root and its build directory: the prefix and a
\* file in it, the prefix of another version, the source root and the
\* sources of a step, the archive, the download cache and a download, the
\* log directory and a log.
SamplePathsOnDisk ==
    {BuilderPrefix, BuilderPrefix \o <<"bin">>,
     work_dirs("root").build \o <<"3.11.1-x86_64-linux-gnu">>,
     BuilderSources, BuilderSources \o <<"python">>,
     BuilderArchive,
     work_dirs("root").download, work_dirs("root").download \o <<"Python.tar.xz">>,
     work_dirs("root").logs, work_dirs("root").logs \o <<"python.log">>}

\* The filesystems: a path exists only inside a directory that exists.
Filesystems ==
    {F \cup {work_dirs("root").root, work_dirs("root").build} :
        F \in {G \in SUBSET SamplePathsOnDisk :
                  \A q \in G : \A p \in SamplePathsOnDisk : IsUnder(q, p) => p \in G}}

\* shutil.rmtree(path): FileNotFoundError when the path does not exist,
\* otherwise the path and everything under it are gone.
rmtree(files, path) ==
    IF path \notin files THEN [fs |-> files, exc |-> "FileNotFoundError"]
    ELSE [fs |-> {q \in files : ~IsUnder(q, path)}, exc |-> "none"]

\* os.remove(path): FileNotFoundError when the path does not exist, otherwise
\* the file is gone.
os_remove(files, path) ==
    IF path \notin files THEN [fs |-> files, exc |-> "FileNotFoundError"]
    ELSE [fs |-> files \ {path}, exc |-> "none"]

\* Lines 995-998: the exceptions of os.remove after which clean goes on.
PassedRemove(exc) == exc \in {"none", "FileNotFoundError"}

\* A fault that drops the except clauses of lines 988-991.
PassedOnlyNone(exc) == exc = "none"

\* Lines 986-991: the exceptions of rmtree after which clean goes on.
Passed(exc) == exc \in {"none", "FileNotFoundError", "PermissionError"}

InitClean ==
    /\ Quiet
    /\ NoDownload
    /\ NoRun
    /\ NoArchive
    /\ NoVersions
    /\ NoTail
    /\ NoShebang
    /\ NoCopy
    /\ NoDirs
    /\ NoImport
    /\ fs \in Filesystems
    /\ fsbefore = fs
    /\ fsonce = <<>>
    /\ cleanpc = "prefix"
    /\ cleans = 0

\* Lines 985-991: one iteration of "for _ in [self.prefix, self.sources]".
CleanDirectory ==
    /\ cleanpc \in {"prefix", "sources"}
    /\ LET out == rmtree(fs, IF cleanpc = "prefix" THEN BuilderPrefix
                             ELSE BuilderSources)
       IN  /\ fs' = out.fs
           /\ cleanpc' = IF ~Passed(out.exc) THEN "raised"
                         ELSE IF cleanpc = "prefix" THEN "sources" ELSE "archive"
    /\ UNCHANGED <<orch, dlcall, runvars, archvars, versvars, tailvars, shebvars,
                   copyvars, dirsvars, importvars, fsbefore, fsonce, cleans>>

\* Lines 993-998: the archive is removed and clean returns.
CleanArchive ==
    /\ cleanpc = "archive"
    /\ LET out == os_remove(fs, BuilderArchive)
       IN  /\ fs' = out.fs
           /\ IF PassedRemove(out.exc)
              THEN /\ cleanpc' = "returned"
                   /\ cleans' = cleans + 1
                   /\ fsonce' = IF cleans = 0 THEN <<out.fs>> ELSE fsonce
              ELSE /\ cleanpc' = "raised"
                   /\ UNCHANGED <<cleans, fsonce>>
    /\ UNCHANGED <<orch, dlcall, runvars, archvars, versvars, tailvars, shebvars,
                   copyvars, dirsvars, importvars, fsbefore>>

\* Builder.clean is called a second time.
CleanAgain ==
    /\ cleanpc = "returned"
    /\ cleans = 1
    /\ cleanpc' = "prefix"
    /\ UNCHANGED <<orch, dlcall, runvars, archvars, versvars, tailvars, shebvars,
                   copyvars, dirsvars, importvars, fs, fsbefore, fsonce, cleans>>

----------------------------------------------------------------------------
\* RelenvImporter (runtime.py).  A module name is a sequence of pieces, so
\* that one name can be the beginning of another.

sysconfig == <<"sysconfig">>
sysconfigdata == <<"sysconfig", "data">>
pip_distlib_scripts == <<"pip._vendor.distlib.scripts">>
distutils_build_ext == <<"distutils.command.build_ext">>
pip_install_wheel == <<"pip._internal.operations.install.wheel">>
pip_install_legacy == <<"pip._internal.operations.install.legacy">>
pip_build_wheel == <<"pip._internal.operations.build.wheel">>
os_module == <<"os">>

\* The names the program imports in the model: names a wrapper matches
\* (sysconfigdata by its beginning) and one that no wrapper matches.
ModuleNames ==
    {sysconfig, sysconfigdata, pip_distlib_scripts, pip_install_wheel, os_module}

\* runtime.py lines 460-469: the wrappers of the importer, in order.
wrappers ==
    <<[module |-> sysconfig, wrapper |-> "wrap_sysconfig", matcher |-> "startswith"],
      [module |-> pip_distlib_scripts, wrapper |-> "wrap_pip_distlib_scripts",
       matcher |-> "equals"],
      [module |-> distutils_build_ext, wrapper |-> "wrap_distutils_command",
       matcher |-> "equals"],
      [module |-> pip_install_wheel, wrapper |-> "wrap_pip_install_wheel",
       matcher |-> "equals"],
      [module |-> pip_install_legacy, wrapper |-> "wrap_pip_install_legacy",
       matcher |-> "equals"],
      [module |-> pip_build_wheel, wrapper |-> "wrap_pip_build_wheel",
       matcher |-> "equals"]>>

\* str.startswith
startswith(s, prefix) == Len(s) >= Len(prefix) /\ SubSeq(s, 1, Len(prefix)) = prefix

\* Wrapper.matches, lines 292-298.
WrapperMatches(w, module) ==
    IF w.matcher = "startswith" THEN startswith(module, w.module)
    ELSE w.module = module

\* The least number of a non-empty set of numbers.
Least(S) == CHOOSE i \in S : \A j \in S : i <= j

\* A fault that drops "and not wrapper.loading" of line 325.
find_module_unflagged(module_name, flags) ==
    LET hits == {i \in 1..Len(wrappers) : WrapperMatches(wrappers[i], module_name)}
    IN  IF hits = {} THEN 0 ELSE Least(hits)

\* RelenvImporter.find_module, lines 320-328: the number of the first wrapper
\* that matches and is not loading (its flag is then set and the importer
\* returned), or 0 when there is none and None is returned.
find_module(module_name, flags) ==
    LET hits == {i \in 1..Len(wrappers) :
                    WrapperMatches(wrappers[i], module_name) /\ ~flags[i]}
    IN  IF hits = {} THEN 0 ELSE Least(hits)

\* RelenvImporter.load_module, lines 334-336: the first wrapper that matches.
load_wrapper(name) ==
    Least({i \in 1..Len(wrappers) : WrapperMatches(wrappers[i], name)})

\* The module a wrapper imports: wrap_sysconfig imports "sysconfig" (line
\* 360), every other wrapper the name it is called with.
WrapperImport(w, name) ==
    IF w.wrapper = "wrap_sysconfig" THEN sysconfig ELSE name

\* The deepest nesting of imports.
MaxDepth == 4

\* An import in progress.  kind is "found" (find_module returned the
\* importer, load_module is still to be called), "wrapper" (load_module is
\* inside the wrapper) or "normal" (the import machinery after the importer
\* returned None: the module itself is being loaded).  own: the import was
\* made by a wrapper.  imported, failed: the wrapper has made its import, and
\* that import raised.
Frame(kind, name, w, own) ==
    [kind |-> kind, name |-> name, w |-> w, own |-> own, imported |-> FALSE,
     failed |-> FALSE]

Top == stack[Len(stack)]

InitImport ==
    /\ Quiet
    /\ NoDownload
    /\ NoRun
    /\ NoArchive
    /\ NoVersions
    /\ NoTail
    /\ NoShebang
    /\ NoCopy
    /\ NoDirs
    /\ NoClean
    /\ loading = [i \in 1..Len(wrappers) |-> FALSE]
    /\ stack = <<>>
    /\ sysmodules = {}
    /\ reentered = FALSE

\* The import machinery asks the importer, first of sys.meta_path (line
\* 565), for a module that is not in sys.modules.  below is the stack the
\* import is made on.
Begin(name, own, below) ==
    LET w == find_module(name, loading)
    IN  IF w # 0
        THEN /\ Len(below) + 2 <= MaxDepth
             /\ loading' = [loading EXCEPT ![w] = TRUE]
             /\ stack' = Append(below, Frame("found", name, w, own))
             /\ reentered' = (reentered \/ own)
             /\ UNCHANGED sysmodules
        ELSE /\ Len(below) + 1 <= MaxDepth
             /\ stack' = Append(below, Frame("normal", name, 0, own))
             /\ sysmodules' = sysmodules \cup {name}
             /\ UNCHANGED <<loading, reentered>>

\* An import statement of the program or of a module that is being loaded.
ImportModule ==
    /\ IF stack = <<>> THEN TRUE ELSE Top.kind = "normal"
    /\ \E name \in ModuleNames \ sysmodules : Begin(name, FALSE, stack)
    /\ UNCHANGED <<orch, dlcall, runvars, archvars, versvars, tailvars, shebvars,
                   copyvars, dirsvars, cleanvars>>

\* create_module, lines 343-347, calls load_module, which calls the first
\* wrapper that matches the name (lines 334-337).
LoadModule ==
    /\ stack # <<>>
    /\ Top.kind = "found"
    /\ stack' = [stack EXCEPT ![Len(stack)].kind = "wrapper",
                              ![Len(stack)].w = load_wrapper(Top.name)]
    /\ UNCHANGED <<orch, dlcall, runvars, archvars, versvars, tailvars, shebvars,
                   copyvars, dirsvars, cleanvars, loading, sysmodules, reentered>>

\* The wrapper calls importlib.import_module; a module that is in
\* sys.modules is returned from there.
WrapperImports ==
    /\ stack # <<>>
    /\ Top.kind = "wrapper"
    /\ ~Top.imported
    /\ LET real == WrapperImport(wrappers[Top.w], Top.name)
           marked == [stack EXCEPT ![Len(stack)].imported = TRUE]
       IN  IF real \in sysmodules
           THEN stack' = marked /\ UNCHANGED <<loading, sysmodules, reentered>>
           ELSE Begin(real, TRUE, marked)
    /\ UNCHANGED <<orch, dlcall, runvars, archvars, versvars, tailvars, shebvars,
                   copyvars, dirsvars, cleanvars>>

\* The stack without its top; when the top was a wrapper's import that
\* raised, the wrapper below is marked.
Pop(raised) ==
    LET below == SubSeq(stack, 1, Len(stack) - 1)
    IN  IF raised /\ Top.own /\ below # <<>>
        THEN [below EXCEPT ![Len(below)].failed = TRUE]
        ELSE below

\* The import machinery has loaded the module, or loading it raised and the
\* module is taken out of sys.modules again.
NormalFinishes ==
    /\ stack # <<>>
    /\ Top.kind = "normal"
    /\ \E raised \in BOOLEAN :
          /\ stack' = Pop(raised)
          /\ sysmodules' = IF raised THEN sysmodules \ {Top.name} ELSE sysmodules
    /\ UNCHANGED <<orch, dlcall, runvars, archvars, versvars, tailvars, shebvars,
                   copyvars, dirsvars, cleanvars, loading, reentered>>

\* Lines 337-341: the wrapper returned the module; the flag is cleared and
\* the module stored in sys.modules.
WrapperReturns ==
    /\ stack # <<>>
    /\ Top.kind = "wrapper"
    /\ Top.imported /\ ~Top.failed
    /\ loading' = [loading EXCEPT ![Top.w] = FALSE]
    /\ sysmodules' = sysmodules \cup {Top.name}
    /\ stack' = Pop(FALSE)
    /\ UNCHANGED <<orch, dlcall, runvars, archvars, versvars, tailvars, shebvars,
                   copyvars, dirsvars, cleanvars, reentered>>

\* Line 337: the wrapper raised (its import raised, or the module lacks what
\* the wrapper patches); the exception leaves load_module at once.
WrapperRaises ==
    /\ stack # <<>>
    /\ Top.kind = "wrapper"
    /\ Top.imported
    /\ stack' = Pop(TRUE)
    /\ UNCHANGED <<orch, dlcall, runvars, archvars, versvars, tailvars, shebvars,
                   copyvars, dirsvars, cleanvars, loading, sysmodules, reentered>>

----------------------------------------------------------------------------
\* What self.toolchain can be when check_prereqs runs: None (set_arch on
\* darwin and win32), a directory that exists, a directory that does not.
Toolchains == {"None", "present", "absent"}

\* Builder.check_prereqs, lines 1149-1154: the list of failed checks.
check_prereqs(toolchain) ==
    IF toolchain = "absent" THEN <<"toolchain">> ELSE <<>>

\* Lines 1179-1184: failed checks end the run in sys.exit(1).
PrereqOutcome(toolchain_ok) == IF toolchain_ok THEN "dspawn" ELSE "done"

\* A fault that moves lines 1186-1187 before the prerequisite check.
CleanRunsFirst(fl, clean) == clean

\* Lines 1180-1187: self.clean() is reached when no check failed and the clean
\* argument is true.
CleanRuns(fl, clean) == fl = <<>> /\ clean

\* Builder.clean, lines 985-998: the install prefix and the source root are
\* removed with rmtree, the archive of the prefix with os.remove.
CleanTargets == {"prefix", "sources", "archive"}

\* Builder.__call__, lines 1173-1198, up to the call of download_files: the
\* prerequisites are checked and a missing toolchain ends the run; then the
\* remnants of an earlier build are removed when the clean argument is true.
\* (The native build that lines 1189-1194 create for a cross build is the work
\* of relenv.create and is not modelled.)
Call ==
    /\ pc = "call"
    /\ \E toolchain \in Toolchains, clean \in BOOLEAN :
          LET fl == check_prereqs(toolchain)
          IN  /\ failures' = fl
              /\ pc' = PrereqOutcome(fl = <<>>)
              /\ result' = IF fl = <<>> THEN result ELSE "exit1"
              /\ removed' = IF CleanRuns(fl, clean)
                            THEN removed \cup CleanTargets ELSE removed
    /\ UNCHANGED <<aux, named, cleanup, dlvars, recipies, registered, steps, tospawn,
                   events, processes, fails, snapshot, proc, is_failure, inner,
                   wstate, exitcode, ran, terminated, gatesets>>

\* download_files, lines 1015-1026: a step has a worker when it has a download.
HasDownload(name) == recipies[name].download

\* One iteration of "for name in steps" of download_files.
DSpawn ==
    /\ pc = "dspawn"
    /\ dtospawn # <<>>
    /\ LET name == Head(dtospawn)
       IN  IF HasDownload(name)
           THEN /\ dstate' = [dstate EXCEPT ![name] = "running"]
                /\ dprocesses' = dprocesses \cup {name}
           ELSE UNCHANGED <<dstate, dprocesses>>
    /\ dtospawn' = Tail(dtospawn)
    /\ UNCHANGED <<aux, failures, removed, named, cleanup, recipies, registered, steps, pc, tospawn, events, processes,
                   fails, snapshot, proc, is_failure, inner, wstate, exitcode,
                   ran, terminated, gatesets, result, force_download, dfails,
                   dsnapshot, dexit, rejected>>

\* A fault that makes "while processes" of download_files a single pass.
DAfterProcOnePass(rest, ps) ==
    IF rest # <<>> THEN [pc |-> "dpoll", snapshot |-> rest]
    ELSE [pc |-> "dsummary", snapshot |-> <<>>]

\* Lines 1028-1029 of download_files, as AfterProc.
DAfterProc(rest, ps) ==
    IF rest # <<>> THEN [pc |-> "dpoll", snapshot |-> rest]
    ELSE IF ps # {} THEN [pc |-> "dpoll", snapshot |-> ProcessList(ps)]
    ELSE [pc |-> "dsummary", snapshot |-> <<>>]

DSpawnDone ==
    /\ pc = "dspawn"
    /\ dtospawn = <<>>
    /\ LET nxt == DAfterProc(<<>>, dprocesses)
       IN  /\ pc' = nxt.pc
           /\ dsnapshot' = nxt.snapshot
    /\ UNCHANGED <<aux, failures, removed, named, cleanup, recipies, registered, steps, tospawn, events, processes,
                   fails, snapshot, proc, is_failure, inner, wstate, exitcode,
                   ran, terminated, gatesets, result, force_download, dtospawn,
                   dprocesses, dfails, dstate, dexit, rejected>>

\* Lines 1030-1034: the download worker is still alive.
DPollAlive ==
    /\ pc = "dpoll"
    /\ dsnapshot # <<>>
    /\ dstate[Head(dsnapshot)] # "exited"
    /\ LET nxt == DAfterProc(Tail(dsnapshot), dprocesses)
       IN  /\ pc' = nxt.pc
           /\ dsnapshot' = nxt.snapshot
    /\ UNCHANGED <<aux, failures, removed, named, cleanup, recipies, registered, steps, tospawn, events, processes,
                   fails, snapshot, proc, is_failure, inner, wstate, exitcode,
                   ran, terminated, gatesets, result, force_download, dtospawn,
                   dprocesses, dfails, dstate, dexit, rejected>>

\* Lines 1035-1037: the download worker has an exit code.
DPollExited ==
    /\ pc = "dpoll"
    /\ dsnapshot # <<>>
    /\ dstate[Head(dsnapshot)] = "exited"
    /\ LET p == Head(dsnapshot)
           nxt == DAfterProc(Tail(dsnapshot), dprocesses \ {p})
       IN  /\ dprocesses' = dprocesses \ {p}
           /\ dfails' = IF IsFailure(dexit[p]) THEN Append(dfails, p) ELSE dfails
           /\ pc' = nxt.pc
           /\ dsnapshot' = nxt.snapshot
    /\ UNCHANGED <<aux, failures, removed, named, cleanup, recipies, registered, steps, tospawn, events, processes,
                   fails, snapshot, proc, is_failure, inner, wstate, exitcode,
                   ran, terminated, gatesets, result, force_download, dtospawn,
                   dstate, dexit, rejected>>

\* A fault that drops the test of line 1040.
DownloadOutcomeIgnored(fl) == "spawn"

\* Lines 1040-1046 and 1198-1199: with failures download_files ends the run in
\* sys.exit(1); without, it returns and Builder.__call__ calls Builder.build.
DownloadOutcome(fl) == IF fl # <<>> THEN "done" ELSE "spawn"

DSummary ==
    /\ pc = "dsummary"
    /\ pc' = DownloadOutcome(dfails)
    /\ result' = IF dfails # <<>> THEN "exit1" ELSE result
    /\ UNCHANGED <<aux, failures, removed, named, cleanup, dlvars, recipies, registered, steps, tospawn, events,
                   processes, fails, snapshot, proc, is_failure, inner, wstate,
                   exitcode, ran, terminated, gatesets>>

----------------------------------------------------------------------------
\* The registries Builder.__call__ is checked over: every step waits on the
\* one before it (a pipeline), and any of the steps has a download.
CallGraphs ==
    {[n \in Names |-> IF n = 1 THEN {} ELSE {n - 1}]}

CallRegistries ==
    {[n \in Names |-> Recipe(n, g[n], n \in D)] : g \in CallGraphs, D \in SUBSET Names}

\* Builder.__call__(steps, force_download=...) is called on a builder as
\* constructed.
InitCall ==
    /\ recipies \in CallRegistries
    /\ registered = recipies
    /\ steps \in {Ascending(S) : S \in SUBSET Names}
    /\ force_download \in BOOLEAN
    /\ pc = "call"
    /\ Fresh
    /\ Idle

----------------------------------------------------------------------------
\* Notions the properties are stated with.

\* The requested steps.
Requested == Elems(steps)

\* The dependency set of a step as registered, restricted to the requested
\* steps.
Deps(n) == Elems(registered[n].wait_on) \cap Requested

RECURSIVE Ancestors(_)
\* The requested steps that n depends on, directly or through requested steps.
Ancestors(n) == Deps(n) \cup UNION {Ancestors(d) : d \in Deps(n)}

\* The worker of the step has terminated with status 0 / with another status.
Succeeded(n) == wstate[n] = "exited" /\ exitcode[n] = 0
Failed(n) == wstate[n] = "exited" /\ exitcode[n] # 0

\* The worker ended by itself with status 1: a statement of Builder.run or the
\* build action raised.
Faulted(n) == wstate[n] = "exited" /\ exitcode[n] = 1

\* The outcome "cancelled": the worker was terminated by the orchestrator.
Cancelled(n) == wstate[n] = "exited" /\ exitcode[n] = -15 /\ terminated[n]

----------------------------------------------------------------------------
\* C1: in Builder.build the build action of a step is invoked only after every
\* step of its dependency set (restricted to the requested steps) has
\* terminated with exit status 0.
C1_ActionOnlyAfterDepsSucceeded ==
    \A n \in Names : ran[n] > 0 => \A d \in Deps(n) : Succeeded(d)

\* A step that waits on two requested steps has had its build action invoked.
C1_Witness ==
    \E n \in Names : ran[n] > 0 /\ Cardinality(Deps(n)) >= 2

\* C2: within one Builder.build each requested step's build action executes at
\* most once, and never while the event of the step is unset.
C2_AtMostOnceBehindGate ==
    \A n \in Names :
        /\ ran[n] <= 1
        /\ ran[n] > 0 => events[n]
        /\ wstate[n] = "running" => events[n]

\* The build action of a step runs behind a gate the orchestrator set after a
\* dependency terminated.
C2_Witness ==
    \E n \in Names : wstate[n] = "running" /\ ran[n] = 1 /\ gatesets[n] = 1

\* C3: if a requested step fails (its worker exits non-zero), the build action
\* of every requested step that transitively depends on it is never invoked,
\* and when the build is over each of them is cancelled and recorded in fails.
C3_FailureCancelsDependents ==
    \A c \in Requested : \A a \in Ancestors(c) :
        Failed(a) =>
            /\ ran[c] = 0
            /\ pc = "done" => Cancelled(c) /\ In(c, fails)

\* The build is over, a step raised, and a step that depends on it only
\* through another step was cancelled.
C3_Witness ==
    /\ pc = "done"
    /\ \E c \in Requested : \E a \in Ancestors(c) \ Deps(c) :
          Faulted(a) /\ ran[a] = 1 /\ Cancelled(c)

\* C4: a requested step is terminated by the orchestrator only when a step it
\* depends on has failed, and when its own worker and those of the steps it
\* depends on raise nothing it ends succeeded, whatever other steps failed.
C4_FailureIsolation ==
    \A s \in Requested :
        /\ terminated[s] => \E a \in Ancestors(s) : Failed(a)
        /\ (pc = "done" /\ \A x \in Ancestors(s) \cup {s} : ~Faulted(x)) =>
              Succeeded(s) /\ ran[s] = 1 /\ ~In(s, fails)

\* The build is over, a step failed, a step depending on it was cancelled, and
\* a step with no dependency path from the failed one succeeded.
C4_Witness ==
    /\ pc = "done"
    /\ \E a, c, s \in Requested :
          /\ Faulted(a) /\ a \in Deps(c) /\ Cancelled(c)
          /\ s # a /\ a \notin Ancestors(s) /\ Succeeded(s) /\ ran[s] = 1

\* C5: a validation failure (checksum mismatch or signature rejection) of a
\* freshly downloaded artifact makes its download worker count as failed in
\* download_files, so that the run ends in exit 1 and no build action runs on
\* the rejected source.
C5_ValidationFailureIsFatal ==
    \A n \in Names :
        rejected[n] =>
            /\ dstate[n] = "exited" => IsFailure(dexit[n])
            /\ ran[n] = 0
            /\ pc = "done" => result = "exit1"

\* C6: in Builder.__call__ no build worker is spawned and no build action runs
\* unless every download worker of the requested steps has terminated with
\* status 0; when a download worker failed, the run ends in exit 1 with every
\* failing step in the fails list that is reported, and nothing was built.
C6_DownloadsAllOrNothing ==
    /\ (pc \in {"spawn", "poll", "waits", "summary"}
            \/ \E n \in Names : wstate[n] # "unborn" \/ ran[n] > 0) =>
          \A n \in Requested :
              HasDownload(n) => dstate[n] = "exited" /\ dexit[n] = 0
    /\ (pc = "done" /\ \E n \in Names : dstate[n] = "exited" /\ dexit[n] # 0) =>
          /\ result = "exit1"
          /\ Elems(dfails) = {n \in Names : dstate[n] = "exited" /\ dexit[n] # 0}
          /\ dprocesses = {}
          /\ \A n \in Names : wstate[n] = "unborn" /\ ran[n] = 0

\* The run ended in exit 1 after two download workers failed and one succeeded.
C6_Witness ==
    /\ pc = "done"
    /\ result = "exit1"
    /\ Len(dfails) >= 2
    /\ \E n \in Requested : dstate[n] = "exited" /\ dexit[n] = 0

\* C7: when the build is over every worker has terminated; if any requested
\* step ended failed or cancelled Builder.build ended in exit 1, however many
\* steps succeeded, and it returned only if every requested step succeeded.
C7_AnyFailureFailsTheRun ==
    pc = "done" =>
        /\ processes = {}
        /\ \A n \in Requested : wstate[n] = "exited"
        /\ (\E n \in Requested : ~Succeeded(n)) => result = "exit1"
        /\ result = "returned" => \A n \in Requested : Succeeded(n)

\* The build ended in exit 1 with one step failed and two steps succeeded.
C7_Witness ==
    /\ pc = "done"
    /\ result = "exit1"
    /\ Len(fails) = 1
    /\ Cardinality({n \in Requested : Succeeded(n)}) >= 2

\* C8: while Builder.build spawns the workers, the event of a spawned step is
\* set if and only if none of its registered dependencies is requested; the
\* event of such a step is set from its spawn on, and the orchestrator never
\* has to set it.
C8_InitialGate ==
    \A n \in Names :
        wstate[n] # "unborn" =>
            /\ pc = "spawn" => (events[n] <=> Deps(n) = {})
            /\ Deps(n) = {} => events[n] /\ gatesets[n] = 0

\* While other workers are still being spawned, a step whose registered
\* dependencies are all outside the requested steps has started its action.
C8_Witness ==
    /\ pc = "spawn"
    /\ tospawn # <<>>
    /\ \E n \in Names :
          /\ registered[n].wait_on # <<>>
          /\ Deps(n) = {}
          /\ ran[n] = 1

\* C9: the event of a step that was cancelled because a dependency failed is
\* never set.
C9_CancelledGateNeverSet ==
    \A n \in Names : terminated[n] => ~events[n]

\* C10: after Builder.build every recipe of Builder.recipies (its dependency
\* list, build action and download) is the same as before the call.
C10_RegistryReadOnly ==
    pc = "done" => recipies = registered

\* C11: when the prerequisite check of Builder.__call__ fails (the required
\* toolchain is absent) the run exits non-zero before any work starts: nothing
\* has been removed, and no download worker and no build worker was spawned.
C11_PrereqFailureBeforeAnyWork ==
    failures # <<>> =>
        /\ pc = "done"
        /\ result = "exit1"
        /\ removed = {}
        /\ dprocesses = {} /\ processes = {}
        /\ \A n \in Names : dstate[n] = "unborn" /\ wstate[n] = "unborn"

\* A run asked for steps, one of them with a download, and the toolchain was
\* absent.
C11_Witness ==
    /\ failures # <<>>
    /\ pc = "done"
    /\ \E n \in Requested : HasDownload(n)

\* C12: termination.  For an acyclic graph of requested steps in which every
\* build action that starts eventually terminates, the polling loop of
\* Builder.build eventually ends with no worker left running and every
\* requested step in a terminal outcome; no step waits forever on an unset
\* gate.
C12_Termination ==
    <>[](/\ pc = "done"
         /\ processes = {}
         /\ \A n \in Requested :
               wstate[n] = "exited" /\ (Succeeded(n) \/ Faulted(n) \/ Cancelled(n)))

\* A run of as many steps as there are names ended with a step that
\* succeeded, a step that failed and a step that was cancelled.
C12_Witness ==
    /\ pc = "done"
    /\ processes = {}
    /\ Len(steps) = NumSteps
    /\ \E a, b, c \in Requested : Succeeded(a) /\ Faulted(b) /\ Cancelled(c)

\* C13: when Builder.build ends with failures, the final summary names every
\* failing and every cancelled step, also a cancelled step whose worker was
\* terminated before it created a log file.
C13_SummaryNamesEveryFailure ==
    (pc = "done" /\ result = "exit1" /\ fails # <<>>) => named = Elems(fails)

\* C14: a Download called without force_download and with a checksum
\* configured: when the destination file exists and its checksum is the
\* configured one, nothing is fetched and the call succeeds; when the file
\* exists and its checksum differs, a fetch is made.
C14_CachedFileDecidesFetch ==
    (returned # <<>> /\ ~download[1].force /\ download[1].d.md5sum
        /\ download[1].env.exists) =>
        IF download[1].env.cached_ok
        THEN /\ returned[1].attempts = <<>>
             /\ ~returned[1].downloaded
             /\ returned[1].exitcode = 0
             /\ returned[1].valid
        ELSE returned[1].attempts # <<>>

\* A call that kept a cached file whose checksum matched.
C14_Witness ==
    /\ returned # <<>>
    /\ ~download[1].force /\ download[1].d.md5sum
    /\ download[1].env.exists /\ download[1].env.cached_ok
    /\ returned[1].attempts = <<>>

\* C15: a non-forced call makes no fetch if and only if the destination file
\* exists and, when a checksum is configured, that checksum matches; an
\* existing file with no checksum configured is not fetched again.
C15_CachedAndValid ==
    (returned # <<>> /\ ~download[1].force) =>
        (returned[1].attempts = <<>> <=>
            /\ download[1].env.exists
            /\ (download[1].d.md5sum => download[1].env.cached_ok))

C17_VerifyAfterFetch ==
    (returned # <<>> /\ returned[1].downloaded) =>
        /\ returned[1].exitcode = 0
        /\ returned[1].valid <=> ~Rejected(download[1].d, download[1].env)

\* C18: once the step has started (its log is open), Builder.run restores the
\* working directory and closes the log on every exit path: the action
\* returned, the action raised, and a statement before the action raised
\* (archive extraction, changing directory, environment population).
C18_RestoresOnEveryExit ==
    (rpc = "exit" /\ logfp # "none") => cwd = "origin" /\ logfp = "closed"

\* C19: an exception raised by the build action is caught in Builder.run, its
\* traceback is written to the log of the step and the worker ends with a
\* non-zero status, which the orchestrator records as a failure; an action that
\* returns gives status zero.
C19_ActionFaultIsLoggedAndFails ==
    rpc = "exit" =>
        /\ fault = "action" =>
              /\ In("traceback", logtext)
              /\ status # <<>> /\ status[1] # 0 /\ IsFailure(status[1])
              /\ logfp = "closed"
        /\ fault = "none" =>
              /\ status = <<0>> /\ ~IsFailure(status[1])
              /\ ~In("traceback", logtext)

\* The build action of a step with a download raised and the worker has ended.
C19_Witness ==
    /\ rpc = "exit"
    /\ fault = "action"
    /\ run[1].download
    /\ status = <<1>>

\* C20: create_archive adds a file under the prefix to the archive if and only
\* if its path relative to the prefix, written with a leading "/", matches at
\* least one pattern of the allow-list; with the allow-list
\* ["*.so", "/bin/python*"] the files lib/x.so and bin/python3 are added and
\* lib/x.o is not.
C20_ArchiveHoldsTheMatchingFiles ==
    /\ tarfp \subseteq toarchive
    /\ \A f \in toarchive \ pending :
          f \in tarfp <=> \E i \in 1..Len(globs) : fnmatch(<<"/">> \o f, globs[i])
    /\ (globs = <<any_so, bin_python_any>> /\ pending = {}) =>
          /\ lib_x_so \in toarchive => lib_x_so \in tarfp
          /\ bin_python3 \in toarchive => bin_python3 \in tarfp
          /\ lib_x_o \notin tarfp

\* The walk over a prefix that holds lib/x.so, bin/python3 and lib/x.o has
\* ended, with the allow-list ["*.so", "/bin/python*"].
C20_Witness ==
    /\ globs = <<any_so, bin_python_any>>
    /\ {lib_x_so, bin_python3, lib_x_o} \subseteq toarchive
    /\ pending = {}
    /\ lib_x_so \in tarfp /\ bin_python3 \in tarfp /\ lib_x_o \notin tarfp

\* C21: the check for newer versions reports exactly the found versions that
\* are greater than the current one and never crashes on a found value that
\* does not parse or cannot be compared; with current 3.10.9 and found
\* 3.10.9, 3.10.10 and "bogus" it reports exactly 3.10.10.
C21_NewerVersionsReported ==
    vout # <<>> =>
        LET cur == vcheck[1].current
            found == vcheck[1].found
        IN  /\ ~vout[1].crashed
            /\ vout[1].newer =
                  {v \in found :
                      \/ parse_ok(v) /\ parse_ok(cur) /\ StrictGreater(v, cur)
                      \/ ~parse_ok(cur) /\ loose_cmp(v, cur) = "gt"}
            /\ (cur = v3_10_9 /\ found = {v3_10_9, v3_10_10, bogus}) =>
                  vout[1].newer = {v3_10_10}

\* C22: in Builder.download_files every requested step with a download gets
\* exactly one worker (and no other step gets one), every worker runs to its
\* own end whatever the other workers do, and download_files neither returns
\* nor aborts before every worker has terminated, each recorded in fails
\* exactly when its exit status is not zero.
C22_EveryDownloadWorkerJoined ==
    [][/\ \A n \in Names :
             dstate'[n] # dstate[n] =>
                 /\ <<dstate[n], dstate'[n]>> \in
                        {<<"unborn", "running">>, <<"running", "exited">>}
                 /\ n \in Requested /\ HasDownload(n)
                 /\ dstate'[n] = "exited" => dexit'[n] \in {0, 1}
       /\ pc' \notin {"call", "dspawn", "dpoll"} =>
             \/ failures' # <<>>
             \/ /\ dprocesses' = {}
                /\ \A n \in Names :
                      IF n \in Requested /\ HasDownload(n)
                      THEN /\ dstate'[n] = "exited"
                           /\ In(n, dfails') <=> dexit'[n] # 0
                      ELSE dstate'[n] = "unborn" /\ ~In(n, dfails')
                /\ Len(dfails') = Cardinality(Elems(dfails'))]_vars

\* download_files ended the run after a worker failed and a worker succeeded,
\* with a requested step that has no download.
C22_Witness ==
    /\ pc = "done"
    /\ dprocesses = {}
    /\ \E a, b, c \in Requested :
          /\ dstate[a] = "exited" /\ dexit[a] = 1 /\ In(a, dfails)
          /\ dstate[b] = "exited" /\ dexit[b] = 0 /\ ~In(b, dfails)
          /\ ~HasDownload(c) /\ dstate[c] = "unborn"

\* C23: only the orchestrator changes the scheduling state: no step of a
\* worker changes a gate, a remaining-dependency list, the failure record or
\* the set of running workers.
C23_WorkersLeaveSchedulingAlone ==
    [][(\E name \in Names :
           WorkerStart(name) \/ WorkerSetupFault(name) \/ WorkerFinish(name))
       => UNCHANGED <<events, recipies, fails, processes, terminated>>]_vars

\* A worker has passed its gate, run its action and failed, and the
\* orchestrator has not yet polled it: it is still in processes and not in
\* fails, and its gate is still set.
C23_Witness ==
    /\ pc = "poll"
    /\ \E n \in processes :
          /\ wstate[n] = "exited" /\ exitcode[n] = 1 /\ ran[n] = 1
          /\ ~In(n, fails)
          /\ events[n]

\* C24: every gate is monotonic and set once: an event that is set is never
\* cleared during the build, the orchestrator calls set() on it at most once,
\* and an event becomes set only in a state where the remaining-dependency
\* list of its step is empty.
C24_GatesMonotonicAndSetOnce ==
    [][\A n \in Names :
          /\ events[n] => events'[n]
          /\ (~events[n] /\ events'[n]) => recipies'[n].wait_on = <<>>
          /\ gatesets'[n] <= 1
          /\ gatesets'[n] = 1 => Deps(n) # {}]_vars

\* The orchestrator has set the gate of a step that had dependencies, and the
\* step runs its action.
C24_Witness ==
    \E n \in Requested :
        /\ Deps(n) # {}
        /\ gatesets[n] = 1
        /\ events[n]
        /\ wstate[n] = "running"

\* C25: when the polling loop of Builder.build has ended, fails holds exactly
\* the requested steps whose worker exited with a status other than zero, by
\* itself or terminated because a dependency failed, each name once, and no
\* step whose worker exited with status zero.
C25_FailsIsExactlyTheFailed ==
    pc \in {"summary", "done"} =>
        /\ Elems(fails) = {n \in Requested : Failed(n)}
        /\ Len(fails) = Cardinality(Elems(fails))
        /\ \A n \in Elems(fails) :
              /\ ~Succeeded(n)
              /\ Faulted(n) \/ Cancelled(n)
              /\ Cancelled(n) => \E d \in Deps(n) : In(d, fails)

\* The loop has just ended with a step that failed, a step cancelled for it
\* and a step that succeeded.
C25_Witness ==
    /\ pc = "summary"
    /\ Len(fails) = 2
    /\ \E a, b, c \in Requested :
          /\ Faulted(a) /\ Cancelled(b) /\ a \in Deps(b)
          /\ Succeeded(c)

\* C26: the removal of the prefix follows the cleanup argument in both
\* outcomes of Builder.build: with cleanup true the prefix is removed after a
\* build in which every step succeeded and after a failed build, with cleanup
\* false it is left in place; the archive next to the prefix is removed in
\* neither case, and nothing is removed before the build is over.
C26_CleanupFollowsTheFlag ==
    /\ pc # "done" => removed = {} /\ cleanup = <<>>
    /\ pc = "done" =>
          /\ cleanup # <<>>
          /\ cleanup[1] => removed = {"prefix"}
          /\ ~cleanup[1] => removed = {}
          /\ "archive" \notin removed

\* A failed build was cleaned up.
C26_Witness ==
    /\ pc = "done"
    /\ result = "exit1"
    /\ cleanup = <<TRUE>>
    /\ removed = {"prefix"}
    /\ \E n \in Requested : Succeeded(n)

\* C27: for a failed step whose log exists Builder.build prints the log from
\* offset max(0, length - 4096) to its end: never more than the last 4096
\* units, and the whole log when it is shorter than 4096.
C27_TailWindow ==
    tailout # <<>> =>
        LET end == tailin[1]
            from == tailout[1].from
            to == tailout[1].to
        IN  /\ to = end
            /\ from = (IF end - 4096 > 0 THEN end - 4096 ELSE 0)
            /\ 0 <= from /\ from <= to
            /\ to - from <= 4096
            /\ end < 4096 => from = 0
            /\ end >= 4096 => to - from = 4096

\* The tail of a log longer than the window was printed.
C27_Witness ==
    /\ tailout # <<>>
    /\ tailin[1] = 4099
    /\ tailout[1].from = 3

\* text begins with prefix
BeginsWith(text, prefix) ==
    Len(text) >= Len(prefix) /\ SubSeq(text, 1, Len(prefix)) = prefix

\* text without its first n pieces
After(text, n) == SubSeq(text, n + 1, Len(text))

\* C28: finalize replaces the full-version shebang first and the major-only
\* shebang second: while the first is being replaced only files that began
\* with the full-version shebang have changed, and once both are done a file
\* that began with the full-version shebang is the new shebang followed by
\* what stood after that shebang (no version suffix left), a file that began
\* with the major-only shebang is the new shebang followed by what stood
\* after it, and every other file is as it was.
C28_ShebangsRewrittenInOrder ==
    /\ shebang = 1 =>
          \A file \in BinFiles :
              binfiles[file] # original[file] =>
                  BeginsWith(original[file], full_shebang)
    /\ shebang = 3 =>
          \A file \in BinFiles :
              LET was == original[file]
              IN  IF BeginsWith(was, full_shebang)
                  THEN binfiles[file] = newshebang \o After(was, Len(full_shebang))
                  ELSE IF BeginsWith(was, major_shebang)
                  THEN binfiles[file] = newshebang \o After(was, Len(major_shebang))
                  ELSE binfiles[file] = was

\* Both passes are over a directory that held a script of each shebang and a
\* file of neither, and the two scripts were rewritten.
C28_Witness ==
    /\ shebang = 3
    /\ \E f, g, h \in BinFiles :
        /\ BeginsWith(original[f], full_shebang)
        /\ Len(original[f]) > Len(full_shebang)
        /\ ~BeginsWith(original[g], full_shebang)
        /\ BeginsWith(original[g], major_shebang)
        /\ ~BeginsWith(original[h], major_shebang)
        /\ binfiles[f] # original[f]
        /\ binfiles[g] # original[g]
        /\ binfiles[h] = original[h]

\* Two calls of Builder.run with the same build configuration whose callers'
\* environments agree on the allow-listed variables.
SameAllowed(i, j) ==
    /\ i.download = j.download
    /\ i.win32 = j.win32
    /\ i.cross = j.cross
    /\ i.environ \cap AllowList = j.environ \cap AllowList

\* C29 as stated: the environment map handed to a build action holds, of the
\* caller's variables, only the allow-listed ones (PATH, and RELENV_DATA when
\* set), and two runs whose caller environments agree on the allow-listed
\* variables hand identical maps to the action.
C29_EnvironmentNotInherited ==
    rpc = "action" =>
        /\ buildenv \cap CallerNames \subseteq AllowList
        /\ \A j \in RunInputs :
              (SameAllowed(run[1], j) /\ (j.win32 \/ "PATH" \in j.environ))
                  => EnvNames(j) = buildenv

\* C29 amended: on every platform but win32 the environment map handed to a
\* build action holds, of the caller's variables, only the allow-listed ones,
\* and two runs whose caller environments agree on them hand identical maps
\* to the action; on win32 the map holds every variable of the caller.
C29_EnvironmentNotInheritedOffWindows ==
    rpc = "action" =>
        /\ ~run[1].win32 =>
              /\ buildenv \cap CallerNames \subseteq AllowList
              /\ \A j \in RunInputs :
                    (SameAllowed(run[1], j) /\ "PATH" \in j.environ)
                        => EnvNames(j) = buildenv
        /\ run[1].win32 => run[1].environ \subseteq buildenv

\* A build action off win32 is handed its map by a caller that has a variable
\* outside the allow-list and both variables of the allow-list.
C29_Witness ==
    /\ rpc = "action"
    /\ ~run[1].win32
    /\ run[1].environ = CallerNames
    /\ "HOME" \notin buildenv
    /\ AllowList \subseteq buildenv

\* C30: in every build of the same Builder, the first or a later one, the
\* remaining-dependency set of a step starts as its registered dependencies
\* restricted to the requested steps, and no build action is invoked before
\* the dependencies of its step among the requested steps have succeeded.
C30_GatingSameOnEveryBuild ==
    \A n \in Names :
        /\ (pc = "spawn" /\ wstate[n] # "unborn") => Elems(waits(n)) = Deps(n)
        /\ ran[n] > 0 => \A d \in Deps(n) : Succeeded(d)

\* C31: in every state of Builder.build a set event implies an empty
\* remaining-dependency list; the orchestrator is about to send terminate()
\* only to a worker whose event is unset, and a worker that was sent it had
\* not started its build action.
C31_TerminateOnlyBehindUnsetGate ==
    /\ \A n \in Names : events[n] => waits(n) = <<>>
    /\ (pc = "waits" /\ inner # <<>>) =>
          LET name == Head(inner)
          IN  (In(proc, waits(name)) /\ is_failure /\ name \in processes)
                  => ~events[name] /\ ran[name] = 0
    /\ \A n \in Names : terminated[n] => ran[n] = 0

\* A dependency failed and its dependent was terminated while another
\* requested step, whose event was set, had started its action and is left
\* alone.
C31_Witness ==
    \E n, m \in Names :
        /\ terminated[n]
        /\ ran[n] = 0
        /\ events[m]
        /\ ran[m] = 1
        /\ ~terminated[m]
        /\ wstate[m] = "running"

\* C32: when Builder.download_files has returned or ended the run, every
\* download worker it spawned has terminated and has been removed from its
\* processes dict; when Builder.build reaches its summary (the success return
\* or the failure summary with sys.exit(1)), every build worker it spawned has
\* terminated and has been removed from its processes dict.
C32_NoOrphanedWorkers ==
    /\ pc \in {"dsummary", "spawn", "poll", "waits", "summary", "done"} =>
          /\ dprocesses = {}
          /\ \A n \in Names : dstate[n] \in {"unborn", "exited"}
    /\ pc \in {"summary", "done"} =>
          /\ processes = {}
          /\ \A n \in Names : wstate[n] \in {"unborn", "exited"}

\* The run ended with a failure summary after a download worker had done its
\* work, a build worker had failed and its dependent had been terminated.
C32_Witness ==
    /\ pc = "done"
    /\ result = "exit1"
    /\ \E d \in Names : dstate[d] = "exited"
    /\ \E n, m \in Names :
          /\ wstate[n] = "exited" /\ exitcode[n] = 1
          /\ wstate[m] = "exited" /\ terminated[m]
    /\ processes = {} /\ dprocesses = {}

\* C33: whatever is done to the builder that Builder.copy returned (its
\* download descriptors are given another version or checksum, it is built),
\* the recipes of the original builder hold what they held when copy was
\* called: the same dependency lists and the same download descriptors.
C33_CopySharesNothing ==
    copyrec # <<>> => Contents(origrec) = before[1]

\* C34: a Dirs object restored with __setstate__ from what __getstate__ gave
\* has the name, arch, version and directories of the original, and its
\* prefix is the prefix of the original.
C34_DirsRoundTrip ==
    restored # <<>> =>
        /\ \A a \in DirsAttrs : restored[1][a] = dirsobj[1][a]
        /\ Prefix(restored[1], platform) # <<>>
        /\ Prefix(restored[1], platform) = Prefix(dirsobj[1], platform)

\* The paths Builder.clean is to remove: the prefix, the source root and what
\* lies under them, and the archive of the prefix.
CleanedPaths(files) ==
    {q \in files : \/ IsUnder(q, BuilderPrefix)
                   \/ IsUnder(q, BuilderSources)
                   \/ q = BuilderArchive}

InFlight == {stack[i].w : i \in {j \in 1..Len(stack) : stack[j].kind # "normal"}}

\* C36: while a wrapper is loading its module (find_module has returned the
\* importer for it and load_module has not finished), find_module returns
\* None for every module name that this wrapper matches, and no import that a
\* wrapper made was handed to the importer.
C36_NoReentrantInterception ==
    /\ \A w \in InFlight :
          \A name \in ModuleNames :
              WrapperMatches(wrappers[w], name) => find_module(name, loading) = 0
    /\ ~reentered

\* The sysconfig wrapper, called for a name that only begins with
\* "sysconfig", has imported the real sysconfig through the normal import
\* machinery, and that module is being loaded.
C36_Witness ==
    /\ Len(stack) >= 2
    /\ Top.kind = "normal" /\ Top.own /\ Top.name = sysconfig
    /\ stack[Len(stack) - 1].kind = "wrapper"
    /\ stack[Len(stack) - 1].name = sysconfigdata
    /\ loading[1]

\* C37: when no load_module call is in progress for a wrapper, whether its
\* last call returned a module or raised, the loading flag of the wrapper is
\* false, so that the next import of a name it matches is intercepted.
C37_FlagClearedAfterEveryLoad ==
    \A w \in 1..Len(wrappers) : loading[w] => w \in InFlight

BuildNext ==
    \/ Spawn
    \/ SpawnDone
    \/ PollAlive
    \/ PollExited
    \/ HandleWait
    \/ WaitsDone
    \/ Summary
    \/ \E name \in Names : WorkerStart(name)
    \/ \E name \in Names : WorkerSetupFault(name)
    \/ \E name \in Names : WorkerFinish(name)

Next == BuildNext

Spec == Init /\ [][Next]_vars

\* The orchestrator is one sequential process: the loops of Builder.build.
Orchestrator ==
    \/ Spawn
    \/ SpawnDone
    \/ PollAlive
    \/ PollExited
    \/ HandleWait
    \/ WaitsDone
    \/ Summary

\* The worker process of one step: Builder.run.
Worker(name) ==
    \/ WorkerStart(name)
    \/ WorkerSetupFault(name)
    \/ WorkerFinish(name)

\* The orchestrator and every worker are processes of the operating system
\* and each keeps running while it has a statement to run: a worker whose gate
\* is set sees it at its next poll (lines 909-910), and a build action that
\* has started terminates.
Fairness ==
    /\ WF_vars(Orchestrator)
    /\ \A name \in Names : WF_vars(Worker(name))

SpecLive == Init /\ [][Next]_vars /\ Fairness

NextCall ==
    \/ Call
    \/ DSpawn
    \/ DSpawnDone
    \/ DPollAlive
    \/ DPollExited
    \/ DSummary
    \/ \E name \in Names : DownloadWorker(name)
    \/ BuildNext

SpecCall == InitCall /\ [][NextCall]_vars

NextDownload == Invoke

SpecDownload == InitDownload /\ [][NextDownload]_vars

NextRun ==
    \/ RunMakedirs
    \/ RunOpenLog
    \/ RunEnter
    \/ RunEnv
    \/ RunHeader
    \/ RunAction
    \/ RunExcept
    \/ RunFinally

SpecRun == InitRun /\ [][NextRun]_vars

NextArchive == ArchiveFile

SpecArchive == InitArchive /\ [][NextArchive]_vars

NextVersions == CheckVersions

SpecVersions == InitVersions /\ [][NextVersions]_vars

NextTail == PrintTail

SpecTail == InitTail /\ [][NextTail]_vars


NextShebang == PatchFile \/ NextShebangPass

SpecShebang == InitShebang /\ [][NextShebang]_vars


NextAgain == BuildNext \/ BuildAgain

SpecAgain == Init /\ [][NextAgain]_vars


NextCopy == BuilderCopy \/ SetDownload \/ BuildCopy

SpecCopy == InitCopy /\ [][NextCopy]_vars


NextDirs == GetState \/ SetState

SpecDirs == InitDirs /\ [][NextDirs]_vars


NextClean == CleanDirectory \/ CleanArchive \/ CleanAgain

SpecClean == InitClean /\ [][NextClean]_vars


NextImport ==
    \/ ImportModule
    \/ LoadModule
    \/ WrapperImports
    \/ NormalFinishes
    \/ WrapperReturns
    \/ WrapperRaises

SpecImport == InitImport /\ [][NextImport]_vars

====
